---- MODULE Spec2Model ----
(***************************************************************************)
(* A model of the unbin binary codec: the length-prefix codec (util.rs),   *)
(* the byte sink (write.rs) and byte sources (read.rs), the encoder        *)
(* (encode.rs), the decoder and its scoped drivers (decode.rs) and the     *)
(* top-level entry points (lib.rs).                                        *)
(*                                                                         *)
(* A usize is modelled as its eight big-endian base-256 digits, so that    *)
(* the 64-bit shifts and truncating casts of util.rs are computed exactly  *)
(* (the model checker's own integers are 32 bits wide).                    *)
(***************************************************************************)
EXTENDS Integers, Sequences, FiniteSets, TLC

VARIABLES
    lc,      \* the length codec's locals: [pc, len, len_encoded, decoded_len1, decoded_len2]
    pc,      \* position of the caller of the entry points: "idle", "encoded", "decoded"
    value,   \* the value handed to the latest serialize call: [sh, v]
    enc,     \* the Encoder and its sink: [sink, status, err]
    target,  \* the shape requested by the latest deserialize call
    dec,     \* the Decoder, its source and the latest result: [rd, status, err, val, visits]
    io,      \* a session of calls on a byte source: [pc, rd, before, buf, calls, res]
    prior,   \* the value whose encoding the sink holds before value's, if any
    ds       \* a sequence or map driver in the hands of a visitor

vars == <<lc, pc, value, enc, target, dec, io, prior, ds>>

-----------------------------------------------------------------------------
(* Bounds of the model.                                                    *)

\* an encode call is issued only while the sink holds at most this many bytes
MaxSink == 1
\* the largest room of a sink of fixed size
MaxRoom == 3

\* longest sequence / map / byte buffer built from the small element sets
MaxSeqLen == 2

\* longest source and longest buffer of a session of calls on a byte source
MaxRead == 3

\* number of calls in a session on a byte source
MaxCalls == 2

-----------------------------------------------------------------------------
(* Generic helpers on byte sequences.                                      *)

Byte == 0..255

RECURSIVE Reverse(_)
Reverse(s) == IF s = <<>> THEN <<>> ELSE Append(Reverse(Tail(s)), Head(s))

RECURSIVE Zeros(_)
Zeros(n) == IF n <= 0 THEN <<>> ELSE <<0>> \o Zeros(n - 1)

Min(a, b) == IF a <= b THEN a ELSE b

Drop(s, n) == SubSeq(s, n + 1, Len(s))

Take(s, n) == SubSeq(s, 1, Min(n, Len(s)))

-----------------------------------------------------------------------------
(* usize: 64 bits, as eight big-endian base-256 digits.                    *)

UsizeBytes == 8

UsizeZero == Zeros(UsizeBytes)

\* `len > 0`
UsizeIsZero(u) == \A i \in 1..UsizeBytes : u[i] = 0

\* `len as u8`: the low eight bits
UsizeAsU8(u) == u[UsizeBytes]

\* `len >>= 8`
UsizeShr8(u) == <<0>> \o SubSeq(u, 1, UsizeBytes - 1)

\* `(len << 8) + (b as usize)`: the top eight bits are shifted out, the low
\* eight bits are zero before the addition, so the sum cannot carry
UsizeShl8Add(u, b) == SubSeq(u, 2, UsizeBytes) \o <<b>>

\* a small natural number as a usize
RECURSIVE NatDigits(_, _)
NatDigits(n, w) == IF w = 0 THEN <<>> ELSE Append(NatDigits(n \div 256, w - 1), n % 256)

ToUsize(n) == NatDigits(n, UsizeBytes)

\* a usize below 2^16 as a natural number; -1 stands for any larger one
UsizeToNat(u) ==
    IF \A i \in 1..(UsizeBytes - 2) : u[i] = 0
    THEN u[UsizeBytes - 1] * 256 + u[UsizeBytes]
    ELSE -1

\* the low four digits of a usize as a natural number
UsizeLow(u) ==
    ((u[UsizeBytes - 3] * 256 + u[UsizeBytes - 2]) * 256 + u[UsizeBytes - 1]) * 256
        + u[UsizeBytes]

\* `len <= n` for a usize len and the length n of a slice in memory
UsizeAtMost(u, n) ==
    /\ \A i \in 1..(UsizeBytes - 4) : u[i] = 0
    /\ u[UsizeBytes - 3] < 128
    /\ UsizeLow(u) <= n

-----------------------------------------------------------------------------
(* util.rs: the length-prefix codec.                                       *)

\* encode_len_small(len: usize) -> u8 { len as u8 }, on a small natural number
encode_len_small(len) == len % 256

\* decode_len_small(len_encoded: u8) -> usize { len_encoded as usize }
decode_len_small(len_encoded) == len_encoded

\* the `while len > 0 { push(len as u8); len >>= 8 }` loop
RECURSIVE encode_len_loop(_, _)
encode_len_loop(len, len_encoded) ==
    IF UsizeIsZero(len)
    THEN len_encoded
    ELSE encode_len_loop(UsizeShr8(len), Append(len_encoded, UsizeAsU8(len)))

\* a plausible slip: the count byte is pushed but the vector is not reversed
encode_len_large_noreverse(len) ==
    LET pushed == encode_len_loop(len, <<>>)
    IN  <<encode_len_small(Len(pushed))>> \o pushed

\* encode_len_large(len: usize) -> Vec<u8>
encode_len_large(len) ==
    LET pushed == encode_len_loop(len, <<>>)
    IN  Reverse(Append(pushed, encode_len_small(Len(pushed))))

\* a plausible slip: the fold adds without shifting
decode_len_large_noshift(len_encoded) ==
    IF len_encoded = <<>> THEN UsizeZero
    ELSE ToUsize(len_encoded[Len(len_encoded)])

\* the `for i in 0..len_encoded.len()` fold, from accumulator `len`; the
\* bytes are folded in order, evaluated by halves
RECURSIVE decode_len_fold(_, _)
decode_len_fold(len, len_encoded) ==
    IF len_encoded = <<>> THEN len
    ELSE IF Len(len_encoded) = 1 THEN UsizeShl8Add(len, len_encoded[1])
    ELSE LET half == Len(len_encoded) \div 2
             left == decode_len_fold(len, SubSeq(len_encoded, 1, half))
         IN  \* the accumulator is a usize before the second half is folded in
             IF Len(left) = UsizeBytes
             THEN decode_len_fold(left, SubSeq(len_encoded, half + 1, Len(len_encoded)))
             ELSE left

\* decode_len_large(len_encoded: &[u8]) -> usize
decode_len_large(len_encoded) == decode_len_fold(UsizeZero, len_encoded)

-----------------------------------------------------------------------------
(* Values and shapes.                                                      *)
(*                                                                         *)
(* A value is what a type's Serialize implementation presents to the       *)
(* Serializer; a shape is what a type's Deserialize implementation asks of *)
(* the Deserializer.  Both are records with the same fields throughout:    *)
(*   t    : the serde data-model type                                      *)
(*   b    : a bool's value; for a seq or map, whether its length is known  *)
(*          ahead of encoding (Some(len))                                  *)
(*   n    : an 8- or 16-bit integer, a char's scalar value, a variant's    *)
(*          index                                                          *)
(*   bs   : a string's UTF-8 bytes, a byte buffer's bytes, or the 16-bit   *)
(*          big-endian limbs of a 32-, 64- or 128-bit integer (the top     *)
(*          limb signed for a signed type)                                 *)
(*   xs   : the children (element values, alternating map keys and values, *)
(*          fields, the payload of Some / newtype)                         *)
(*   name : the name of the enum a variant belongs to                      *)

V(t) == [t |-> t, b |-> FALSE, n |-> 0, bs |-> <<>>, xs |-> <<>>, name |-> ""]

VBool(x) == [V("bool") EXCEPT !.b = x]
VInt(t, x) == [V(t) EXCEPT !.n = x]
VWide(t, limbs) == [V(t) EXCEPT !.bs = limbs]
\* an f32 or f64 by its IEEE 754 fields: the sign bit, the biased exponent
\* and the fraction, the fraction as its top 7 (f32) or 4 (f64) bits
\* followed by 16-bit limbs
VFloat(t, sign, exponent, fraction) ==
    [V(t) EXCEPT !.b = sign, !.n = exponent, !.bs = fraction]
VChar(c) == [V("char") EXCEPT !.n = c]
VText(t, bytes) == [V(t) EXCEPT !.bs = bytes]
VNone == V("option")
VSome(x) == [V("option") EXCEPT !.xs = <<x>>]
VKids(t, kids) == [V(t) EXCEPT !.xs = kids]
VColl(t, known, kids) == [V(t) EXCEPT !.b = known, !.xs = kids]
VVariant(t, name, idx, kids) == [V(t) EXCEPT !.name = name, !.n = idx, !.xs = kids]
\* a field of a struct or struct variant that its Serialize implementation
\* skips (skip_field(key)) instead of serializing
VSkip(key) == [V("skip") EXCEPT !.name = key]

\* a shape: [t, xs, name]; for an enum, xs are the variants' shapes in
\* declaration order; name is the name of the enum, struct or variant, which
\* only serde's messages use
S(t) == [t |-> t, xs |-> <<>>, name |-> ""]
SKids(t, kids) == [t |-> t, xs |-> kids, name |-> ""]
SEnum(name, variants) == [t |-> "enum", xs |-> variants, name |-> name]

SmallIntTypes == {"i8", "u8", "i16", "u16"}
WideIntTypes == {"i32", "u32", "i64", "u64", "i128", "u128"}
IntTypes == SmallIntTypes \cup WideIntTypes
SignedTypes == {"i8", "i16", "i32", "i64", "i128"}
FloatTypes == {"f32", "f64"}

\* size_of the integer or floating-point type, in bytes
Width(t) ==
    CASE t \in {"i8", "u8"} -> 1
      [] t \in {"i16", "u16"} -> 2
      [] t \in {"i32", "u32", "f32"} -> 4
      [] t \in {"i64", "u64", "f64"} -> 8
      [] t \in {"i128", "u128"} -> 16

-----------------------------------------------------------------------------
(* Integer and UTF-8 conversions of the standard library, as the encoder   *)
(* and decoder use them.                                                   *)

\* the w low base-256 digits of x, most significant first (two's complement
\* for a negative x: % and \div round towards minus infinity)
RECURSIVE BeDigits(_, _)
BeDigits(x, w) == IF w = 0 THEN <<>> ELSE Append(BeDigits(x \div 256, w - 1), x % 256)

RECURSIVE LimbsToBytes(_)
LimbsToBytes(limbs) ==
    IF limbs = <<>> THEN <<>> ELSE BeDigits(Head(limbs), 2) \o LimbsToBytes(Tail(limbs))

\* the number of exponent values that share the second byte of a float:
\* 8 exponent bits (f32) leave one for that byte, 11 (f64) leave four
ExponentLow(t) == IF t = "f32" THEN 2 ELSE 16

\* the bits of a float, most significant byte first: sign, exponent,
\* fraction
FloatToBits(t, v) ==
    <<(IF v.b THEN 128 ELSE 0) + v.n \div ExponentLow(t),
      ((v.n % ExponentLow(t)) * (256 \div ExponentLow(t))) + v.bs[1]>>
    \o LimbsToBytes(Tail(v.bs))

\* v.to_be_bytes() for the integer or floating-point type t
to_be_bytes(t, v) ==
    CASE t \in SmallIntTypes -> BeDigits(v.n, Width(t))
      [] t \in FloatTypes -> FloatToBits(t, v)
      [] OTHER -> LimbsToBytes(v.bs)

RECURSIVE BeFold(_, _)
BeFold(acc, bytes) ==
    IF bytes = <<>> THEN acc ELSE BeFold(acc * 256 + Head(bytes), Tail(bytes))

\* the big-endian value of at most two bytes, two's complement when signed
BeValue(bytes, signed) ==
    IF signed /\ bytes[1] >= 128
    THEN BeFold(bytes[1] - 256, Tail(bytes))
    ELSE BeFold(0, bytes)

RECURSIVE BytesToLimbs(_, _)
BytesToLimbs(bytes, signed) ==
    IF bytes = <<>> THEN <<>>
    ELSE <<BeValue(SubSeq(bytes, 1, 2), signed)>> \o BytesToLimbs(Drop(bytes, 2), FALSE)

\* the float whose bits are bytes
FloatFromBits(t, bytes) ==
    VFloat(t, bytes[1] >= 128,
           ((bytes[1] % 128) * ExponentLow(t)) + (bytes[2] \div (256 \div ExponentLow(t))),
           <<bytes[2] % (256 \div ExponentLow(t))>> \o BytesToLimbs(Drop(bytes, 2), FALSE))

\* <t>::from_be_bytes(bytes)
from_be_bytes(t, bytes) ==
    CASE t \in SmallIntTypes -> VInt(t, BeValue(bytes, t \in SignedTypes))
      [] t \in FloatTypes -> FloatFromBits(t, bytes)
      [] OTHER -> VWide(t, BytesToLimbs(bytes, t \in SignedTypes))

\* char::len_utf8
len_utf8(c) ==
    IF c < 128 THEN 1 ELSE IF c < 2048 THEN 2 ELSE IF c < 65536 THEN 3 ELSE 4

\* char::encode_utf8
encode_utf8(c) ==
    CASE len_utf8(c) = 1 -> <<c>>
      [] len_utf8(c) = 2 -> <<192 + (c \div 64), 128 + (c % 64)>>
      [] len_utf8(c) = 3 -> <<224 + (c \div 4096), 128 + ((c \div 64) % 64), 128 + (c % 64)>>
      [] len_utf8(c) = 4 -> <<240 + (c \div 262144), 128 + ((c \div 4096) % 64),
                              128 + ((c \div 64) % 64), 128 + (c % 64)>>

IsCont(b) == b >= 128 /\ b < 192

\* the width of the UTF-8 sequence that starts s, 0 when s does not start
\* with a well-formed one (overlong forms, surrogates and scalars above
\* U+10FFFF are malformed)
Utf8Width(s) ==
    IF s = <<>> THEN 0
    ELSE LET b == s[1] IN
      CASE b < 128 -> 1
        [] b >= 194 /\ b < 224 ->
             IF Len(s) >= 2 /\ IsCont(s[2]) THEN 2 ELSE 0
        [] b >= 224 /\ b < 240 ->
             IF /\ Len(s) >= 3 /\ IsCont(s[2]) /\ IsCont(s[3])
                /\ (b = 224 => s[2] >= 160)
                /\ (b = 237 => s[2] < 160)
             THEN 3 ELSE 0
        [] b >= 240 /\ b < 245 ->
             IF /\ Len(s) >= 4 /\ IsCont(s[2]) /\ IsCont(s[3]) /\ IsCont(s[4])
                /\ (b = 240 => s[2] >= 144)
                /\ (b = 244 => s[2] < 144)
             THEN 4 ELSE 0
        [] OTHER -> 0

\* std::str::from_utf8(bytes).is_ok(): the first byte starts a sequence, and
\* every byte that is not a continuation byte starts a well-formed sequence
\* that is followed by the end or by another such byte
Utf8Valid(s) ==
    /\ s # <<>> => ~IsCont(s[1])
    /\ \A i \in 1..Len(s) :
          ~IsCont(s[i]) =>
              /\ Utf8Width(SubSeq(s, i, Min(i + 3, Len(s)))) > 0
              /\ i + Utf8Width(SubSeq(s, i, Min(i + 3, Len(s)))) <= Len(s)
                    => ~IsCont(s[i + Utf8Width(SubSeq(s, i, Min(i + 3, Len(s))))])

\* the first scalar of a well-formed, non-empty UTF-8 string: chars().next()
FirstScalar(s) ==
    CASE Utf8Width(s) = 1 -> s[1]
      [] Utf8Width(s) = 2 -> (s[1] - 192) * 64 + (s[2] - 128)
      [] Utf8Width(s) = 3 -> ((s[1] - 224) * 64 + (s[2] - 128)) * 64 + (s[3] - 128)
      [] Utf8Width(s) = 4 ->
           (((s[1] - 240) * 64 + (s[2] - 128)) * 64 + (s[3] - 128)) * 64 + (s[4] - 128)

-----------------------------------------------------------------------------
(* error.rs: the library's error values, [kind, name, ty, bytes].          *)

NoError == [kind |-> "none", name |-> "", ty |-> "", bytes |-> <<>>]

Err(kind) == [NoError EXCEPT !.kind = kind]

UnknownSeqLengthNotAllowed == Err("UnknownSeqLengthNotAllowed")
UnknownMapLengthNotAllowed == Err("UnknownMapLengthNotAllowed")
TooManyVariants(name) == [Err("TooManyVariants") EXCEPT !.name = name]
\* encode.rs names this variant with the skipped field's key; error.rs does
\* not list it
FieldSkippingNotAllowed(key) == [Err("FieldSkippingNotAllowed") EXCEPT !.name = key]
CannotDeserializeAny == Err("CannotDeserializeAny")
CannotDeserializeIdentifier == Err("CannotDeserializeIdentifier")
UnexpectedEof == Err("UnexpectedEof")
InvalidBytes(ty, bytes) == [Err("InvalidBytes") EXCEPT !.ty = ty, !.bytes = bytes]
IoError(what) == [Err("IoError") EXCEPT !.name = what]
Utf8Error == Err("Utf8Error")
\* Error::Custom(msg.to_string()): msg is the UTF-8 bytes of the String (a
\* negative element -c stands for the scalar c written in one of two ways,
\* see escape_debug_scalar)
Custom(msg) == [Err("Custom") EXCEPT !.bytes = msg]

\* the printable ASCII characters in code order: 32 to 95, and 97 to 126
\* (96, the grave accent, cannot be written in a string of this module)
AsciiLow == " !\"#$%&'()*+,-./0123456789:;<=>?@ABCDEFGHIJKLMNOPQRSTUVWXYZ[\\]^_"
AsciiHigh == "abcdefghijklmnopqrstuvwxyz{|}~"

CharCode(c) ==
    IF \E i \in 1..Len(AsciiLow) : SubSeq(AsciiLow, i, i) = c
    THEN 31 + CHOOSE i \in 1..Len(AsciiLow) : SubSeq(AsciiLow, i, i) = c
    ELSE 96 + CHOOSE i \in 1..Len(AsciiHigh) : SubSeq(AsciiHigh, i, i) = c

\* the bytes of an ASCII text
RECURSIVE Ascii(_)
Ascii(s) == IF s = "" THEN <<>> ELSE <<CharCode(Head(s))>> \o Ascii(Tail(s))

\* the digits of n in base `base`, as text (lower-case for hexadecimal)
RECURSIVE Digits(_, _)
Digits(n, base) ==
    (IF n < base THEN <<>> ELSE Digits(n \div base, base))
    \o <<IF n % base < 10 THEN 48 + (n % base) ELSE 87 + (n % base)>>

\* Display of an integer
Decimal(n) == Digits(n, 10)

\* The scalar values above ASCII that Debug of a str writes as \u{hex}, as
\* the bounds first, last of 356 ranges one after the other: the scalars
\* that are not printable (the general categories Cc, Cf, Co, Zl, Zp and Zs)
\* and the grapheme extenders (Mn, Me, and U+FF9E, U+FF9F).
EscapedScalars ==
    <<128, 160, 173, 173, 768, 879, 1155, 1161, 1425, 1469, 1471, 1471, 1473,
      1474, 1476, 1477, 1479, 1479, 1536, 1541, 1552, 1562, 1564, 1564, 1611,
      1631, 1648, 1648, 1750, 1757, 1759, 1764, 1767, 1768, 1770, 1773, 1807,
      1807, 1809, 1809, 1840, 1866, 1958, 1968, 2027, 2035, 2045, 2045, 2070,
      2073, 2075, 2083, 2085, 2087, 2089, 2093, 2137, 2139, 2192, 2193, 2200,
      2207, 2250, 2306, 2362, 2362, 2364, 2364, 2369, 2376, 2381, 2381, 2385,
      2391, 2402, 2403, 2433, 2433, 2492, 2492, 2497, 2500, 2509, 2509, 2530,
      2531, 2558, 2558, 2561, 2562, 2620, 2620, 2625, 2626, 2631, 2632, 2635,
      2637, 2641, 2641, 2672, 2673, 2677, 2677, 2689, 2690, 2748, 2748, 2753,
      2757, 2759, 2760, 2765, 2765, 2786, 2787, 2810, 2815, 2817, 2817, 2876,
      2876, 2879, 2879, 2881, 2884, 2893, 2893, 2901, 2902, 2914, 2915, 2946,
      2946, 3008, 3008, 3021, 3021, 3072, 3072, 3076, 3076, 3132, 3132, 3134,
      3136, 3142, 3144, 3146, 3149, 3157, 3158, 3170, 3171, 3201, 3201, 3260,
      3260, 3263, 3263, 3270, 3270, 3276, 3277, 3298, 3299, 3328, 3329, 3387,
      3388, 3393, 3396, 3405, 3405, 3426, 3427, 3457, 3457, 3530, 3530, 3538,
      3540, 3542, 3542, 3633, 3633, 3636, 3642, 3655, 3662, 3761, 3761, 3764,
      3772, 3784, 3789, 3864, 3865, 3893, 3893, 3895, 3895, 3897, 3897, 3953,
      3966, 3968, 3972, 3974, 3975, 3981, 3991, 3993, 4028, 4038, 4038, 4141,
      4144, 4146, 4151, 4153, 4154, 4157, 4158, 4184, 4185, 4190, 4192, 4209,
      4212, 4226, 4226, 4229, 4230, 4237, 4237, 4253, 4253, 4957, 4959, 5760,
      5760, 5906, 5908, 5938, 5939, 5970, 5971, 6002, 6003, 6068, 6069, 6071,
      6077, 6086, 6086, 6089, 6099, 6109, 6109, 6155, 6159, 6277, 6278, 6313,
      6313, 6432, 6434, 6439, 6440, 6450, 6450, 6457, 6459, 6679, 6680, 6683,
      6683, 6742, 6742, 6744, 6750, 6752, 6752, 6754, 6754, 6757, 6764, 6771,
      6780, 6783, 6783, 6832, 6862, 6912, 6915, 6964, 6964, 6966, 6970, 6972,
      6972, 6978, 6978, 7019, 7027, 7040, 7041, 7074, 7077, 7080, 7081, 7083,
      7085, 7142, 7142, 7144, 7145, 7149, 7149, 7151, 7153, 7212, 7219, 7222,
      7223, 7376, 7378, 7380, 7392, 7394, 7400, 7405, 7405, 7412, 7412, 7416,
      7417, 7616, 7679, 8192, 8207, 8232, 8239, 8287, 8292, 8294, 8303, 8400,
      8432, 11503, 11505, 11647, 11647, 11744, 11775, 12288, 12288, 12330,
      12333, 12441, 12442, 42607, 42610, 42612, 42621, 42654, 42655, 42736,
      42737, 43010, 43010, 43014, 43014, 43019, 43019, 43045, 43046, 43052,
      43052, 43204, 43205, 43232, 43249, 43263, 43263, 43302, 43309, 43335,
      43345, 43392, 43394, 43443, 43443, 43446, 43449, 43452, 43453, 43493,
      43493, 43561, 43566, 43569, 43570, 43573, 43574, 43587, 43587, 43596,
      43596, 43644, 43644, 43696, 43696, 43698, 43700, 43703, 43704, 43710,
      43711, 43713, 43713, 43756, 43757, 43766, 43766, 44005, 44005, 44008,
      44008, 44013, 44013, 57344, 63743, 64286, 64286, 65024, 65039, 65056,
      65071, 65279, 65279, 65438, 65439, 65529, 65531, 66045, 66045, 66272,
      66272, 66422, 66426, 68097, 68099, 68101, 68102, 68108, 68111, 68152,
      68154, 68159, 68159, 68325, 68326, 68900, 68903, 69291, 69292, 69446,
      69456, 69506, 69509, 69633, 69633, 69688, 69702, 69744, 69744, 69747,
      69748, 69759, 69761, 69811, 69814, 69817, 69818, 69821, 69821, 69826,
      69826, 69837, 69837, 69888, 69890, 69927, 69931, 69933, 69940, 70003,
      70003, 70016, 70017, 70070, 70078, 70089, 70092, 70095, 70095, 70191,
      70193, 70196, 70196, 70198, 70199, 70206, 70206, 70367, 70367, 70371,
      70378, 70400, 70401, 70459, 70460, 70464, 70464, 70502, 70508, 70512,
      70516, 70712, 70719, 70722, 70724, 70726, 70726, 70750, 70750, 70835,
      70840, 70842, 70842, 70847, 70848, 70850, 70851, 71090, 71093, 71100,
      71101, 71103, 71104, 71132, 71133, 71219, 71226, 71229, 71229, 71231,
      71232, 71339, 71339, 71341, 71341, 71344, 71349, 71351, 71351, 71453,
      71453, 71455, 71455, 71458, 71461, 71463, 71467, 71727, 71735, 71737,
      71738, 71995, 71996, 71998, 71998, 72003, 72003, 72148, 72151, 72154,
      72155, 72160, 72160, 72193, 72202, 72243, 72248, 72251, 72254, 72263,
      72263, 72273, 72278, 72281, 72283, 72330, 72342, 72344, 72345, 72752,
      72758, 72760, 72765, 72767, 72767, 72850, 72871, 72874, 72880, 72882,
      72883, 72885, 72886, 73009, 73014, 73018, 73018, 73020, 73021, 73023,
      73029, 73031, 73031, 73104, 73105, 73109, 73109, 73111, 73111, 73459,
      73460, 78896, 78904, 92912, 92916, 92976, 92982, 94031, 94031, 94095,
      94098, 94180, 94180, 113821, 113822, 113824, 113827, 118528, 118573,
      118576, 118598, 119143, 119145, 119155, 119170, 119173, 119179, 119210,
      119213, 119362, 119364, 121344, 121398, 121403, 121452, 121461, 121461,
      121476, 121476, 121499, 121503, 121505, 121519, 122880, 122886, 122888,
      122904, 122907, 122913, 122915, 122916, 122918, 122922, 123184, 123190,
      123566, 123566, 123628, 123631, 125136, 125142, 125252, 125258, 917505,
      917505, 917536, 917631, 917760, 917999, 983040, 1048573, 1048576, 1114109>>

\* The scalar values above ASCII for which the outcome depends on the
\* Unicode version of the standard library the program is built with, as the
\* bounds of 811 ranges: the scalars not assigned in Unicode 14 (escaped until
\* a version assigns them), the spacing marks (Mc, escaped once a version
\* lists them as grapheme extenders) and U+1171E, a nonspacing mark that
\* later versions class as a spacing mark.
UnsettledScalars ==
    <<888, 889, 896, 899, 907, 907, 909, 909, 930, 930, 1328, 1328, 1367, 1368,
      1419, 1420, 1424, 1424, 1480, 1487, 1515, 1518, 1525, 1535, 1806, 1806,
      1867, 1868, 1970, 1983, 2043, 2044, 2094, 2095, 2111, 2111, 2140, 2141,
      2143, 2143, 2155, 2159, 2191, 2191, 2194, 2199, 2307, 2307, 2363, 2363,
      2366, 2368, 2377, 2380, 2382, 2383, 2434, 2436, 2445, 2446, 2449, 2450,
      2473, 2473, 2481, 2481, 2483, 2485, 2490, 2491, 2494, 2496, 2501, 2508,
      2511, 2523, 2526, 2526, 2532, 2533, 2559, 2560, 2563, 2564, 2571, 2574,
      2577, 2578, 2601, 2601, 2609, 2609, 2612, 2612, 2615, 2615, 2618, 2619,
      2621, 2624, 2627, 2630, 2633, 2634, 2638, 2640, 2642, 2648, 2653, 2653,
      2655, 2661, 2679, 2688, 2691, 2692, 2702, 2702, 2706, 2706, 2729, 2729,
      2737, 2737, 2740, 2740, 2746, 2747, 2750, 2752, 2758, 2758, 2761, 2764,
      2766, 2767, 2769, 2783, 2788, 2789, 2802, 2808, 2816, 2816, 2818, 2820,
      2829, 2830, 2833, 2834, 2857, 2857, 2865, 2865, 2868, 2868, 2874, 2875,
      2878, 2878, 2880, 2880, 2885, 2892, 2894, 2900, 2903, 2907, 2910, 2910,
      2916, 2917, 2936, 2945, 2948, 2948, 2955, 2957, 2961, 2961, 2966, 2968,
      2971, 2971, 2973, 2973, 2976, 2978, 2981, 2983, 2987, 2989, 3002, 3007,
      3009, 3020, 3022, 3023, 3025, 3045, 3067, 3071, 3073, 3075, 3085, 3085,
      3089, 3089, 3113, 3113, 3130, 3131, 3137, 3141, 3145, 3145, 3150, 3156,
      3159, 3159, 3163, 3164, 3166, 3167, 3172, 3173, 3184, 3190, 3202, 3203,
      3213, 3213, 3217, 3217, 3241, 3241, 3252, 3252, 3258, 3259, 3262, 3262,
      3264, 3269, 3271, 3275, 3278, 3292, 3295, 3295, 3300, 3301, 3312, 3312,
      3315, 3327, 3330, 3331, 3341, 3341, 3345, 3345, 3390, 3392, 3397, 3404,
      3408, 3411, 3415, 3415, 3428, 3429, 3456, 3456, 3458, 3460, 3479, 3481,
      3506, 3506, 3516, 3516, 3518, 3519, 3527, 3529, 3531, 3537, 3541, 3541,
      3543, 3557, 3568, 3571, 3573, 3584, 3643, 3646, 3676, 3712, 3715, 3715,
      3717, 3717, 3723, 3723, 3748, 3748, 3750, 3750, 3774, 3775, 3781, 3781,
      3783, 3783, 3790, 3791, 3802, 3803, 3808, 3839, 3902, 3903, 3912, 3912,
      3949, 3952, 3967, 3967, 3992, 3992, 4029, 4029, 4045, 4045, 4059, 4095,
      4139, 4140, 4145, 4145, 4152, 4152, 4155, 4156, 4182, 4183, 4194, 4196,
      4199, 4205, 4227, 4228, 4231, 4236, 4239, 4239, 4250, 4252, 4294, 4294,
      4296, 4300, 4302, 4303, 4681, 4681, 4686, 4687, 4695, 4695, 4697, 4697,
      4702, 4703, 4745, 4745, 4750, 4751, 4785, 4785, 4790, 4791, 4799, 4799,
      4801, 4801, 4806, 4807, 4823, 4823, 4881, 4881, 4886, 4887, 4955, 4956,
      4989, 4991, 5018, 5023, 5110, 5111, 5118, 5119, 5789, 5791, 5881, 5887,
      5909, 5918, 5940, 5940, 5943, 5951, 5972, 5983, 5997, 5997, 6001, 6001,
      6004, 6015, 6070, 6070, 6078, 6085, 6087, 6088, 6110, 6111, 6122, 6127,
      6138, 6143, 6170, 6175, 6265, 6271, 6315, 6319, 6390, 6399, 6431, 6431,
      6435, 6438, 6441, 6449, 6451, 6456, 6460, 6463, 6465, 6467, 6510, 6511,
      6517, 6527, 6572, 6575, 6602, 6607, 6619, 6621, 6681, 6682, 6684, 6685,
      6741, 6741, 6743, 6743, 6751, 6751, 6753, 6753, 6755, 6756, 6765, 6770,
      6781, 6782, 6794, 6799, 6810, 6815, 6830, 6831, 6863, 6911, 6916, 6916,
      6965, 6965, 6971, 6971, 6973, 6977, 6979, 6980, 6989, 6991, 7039, 7039,
      7042, 7042, 7073, 7073, 7078, 7079, 7082, 7082, 7143, 7143, 7146, 7148,
      7150, 7150, 7154, 7163, 7204, 7211, 7220, 7221, 7224, 7226, 7242, 7244,
      7305, 7311, 7355, 7356, 7368, 7375, 7393, 7393, 7415, 7415, 7419, 7423,
      7958, 7959, 7966, 7967, 8006, 8007, 8014, 8015, 8024, 8024, 8026, 8026,
      8028, 8028, 8030, 8030, 8062, 8063, 8117, 8117, 8133, 8133, 8148, 8149,
      8156, 8156, 8176, 8177, 8181, 8181, 8191, 8191, 8293, 8293, 8306, 8307,
      8335, 8335, 8349, 8351, 8385, 8399, 8433, 8447, 8588, 8591, 9255, 9279,
      9291, 9311, 11124, 11125, 11158, 11158, 11508, 11512, 11558, 11558, 11560,
      11564, 11566, 11567, 11624, 11630, 11633, 11646, 11671, 11679, 11687,
      11687, 11695, 11695, 11703, 11703, 11711, 11711, 11719, 11719, 11727,
      11727, 11735, 11735, 11743, 11743, 11870, 11903, 11930, 11930, 12020,
      12031, 12246, 12271, 12284, 12287, 12334, 12335, 12352, 12352, 12439,
      12440, 12544, 12548, 12592, 12592, 12687, 12687, 12772, 12783, 12831,
      12831, 42125, 42127, 42183, 42191, 42540, 42559, 42744, 42751, 42955,
      42959, 42962, 42962, 42964, 42964, 42970, 42993, 43043, 43044, 43047,
      43047, 43053, 43055, 43066, 43071, 43128, 43137, 43188, 43203, 43206,
      43213, 43226, 43231, 43346, 43358, 43389, 43391, 43395, 43395, 43444,
      43445, 43450, 43451, 43454, 43456, 43470, 43470, 43482, 43485, 43519,
      43519, 43567, 43568, 43571, 43572, 43575, 43583, 43597, 43599, 43610,
      43611, 43643, 43643, 43645, 43645, 43715, 43738, 43755, 43755, 43758,
      43759, 43765, 43765, 43767, 43776, 43783, 43784, 43791, 43792, 43799,
      43807, 43815, 43815, 43823, 43823, 43884, 43887, 44003, 44004, 44006,
      44007, 44009, 44010, 44012, 44012, 44014, 44015, 44026, 44031, 55204,
      55215, 55239, 55242, 55292, 55295, 64110, 64111, 64218, 64255, 64263,
      64274, 64280, 64284, 64311, 64311, 64317, 64317, 64319, 64319, 64322,
      64322, 64325, 64325, 64451, 64466, 64912, 64913, 64968, 64974, 64976,
      65007, 65050, 65055, 65107, 65107, 65127, 65127, 65132, 65135, 65141,
      65141, 65277, 65278, 65280, 65280, 65471, 65473, 65480, 65481, 65488,
      65489, 65496, 65497, 65501, 65503, 65511, 65511, 65519, 65528, 65534,
      65535, 65548, 65548, 65575, 65575, 65595, 65595, 65598, 65598, 65614,
      65615, 65630, 65663, 65787, 65791, 65795, 65798, 65844, 65846, 65935,
      65935, 65949, 65951, 65953, 65999, 66046, 66175, 66205, 66207, 66257,
      66271, 66300, 66303, 66340, 66348, 66379, 66383, 66427, 66431, 66462,
      66462, 66500, 66503, 66518, 66559, 66718, 66719, 66730, 66735, 66772,
      66775, 66812, 66815, 66856, 66863, 66916, 66926, 66939, 66939, 66955,
      66955, 66963, 66963, 66966, 66966, 66978, 66978, 66994, 66994, 67002,
      67002, 67005, 67071, 67383, 67391, 67414, 67423, 67432, 67455, 67462,
      67462, 67505, 67505, 67515, 67583, 67590, 67591, 67593, 67593, 67638,
      67638, 67641, 67643, 67645, 67646, 67670, 67670, 67743, 67750, 67760,
      67807, 67827, 67827, 67830, 67834, 67868, 67870, 67898, 67902, 67904,
      67967, 68024, 68027, 68048, 68049, 68100, 68100, 68103, 68107, 68116,
      68116, 68120, 68120, 68150, 68151, 68155, 68158, 68169, 68175, 68185,
      68191, 68256, 68287, 68327, 68330, 68343, 68351, 68406, 68408, 68438,
      68439, 68467, 68471, 68498, 68504, 68509, 68520, 68528, 68607, 68681,
      68735, 68787, 68799, 68851, 68857, 68904, 68911, 68922, 69215, 69247,
      69247, 69290, 69290, 69294, 69295, 69298, 69375, 69416, 69423, 69466,
      69487, 69514, 69551, 69580, 69599, 69623, 69632, 69634, 69634, 69710,
      69713, 69750, 69758, 69762, 69762, 69808, 69810, 69815, 69816, 69827,
      69836, 69838, 69839, 69865, 69871, 69882, 69887, 69932, 69932, 69941,
      69941, 69957, 69958, 69960, 69967, 70007, 70015, 70018, 70018, 70067,
      70069, 70079, 70080, 70094, 70094, 70112, 70112, 70133, 70143, 70162,
      70162, 70188, 70190, 70194, 70195, 70197, 70197, 70207, 70271, 70279,
      70279, 70281, 70281, 70286, 70286, 70302, 70302, 70314, 70319, 70368,
      70370, 70379, 70383, 70394, 70399, 70402, 70404, 70413, 70414, 70417,
      70418, 70441, 70441, 70449, 70449, 70452, 70452, 70458, 70458, 70462,
      70463, 70465, 70479, 70481, 70492, 70498, 70501, 70509, 70511, 70517,
      70655, 70709, 70711, 70720, 70721, 70725, 70725, 70748, 70748, 70754,
      70783, 70832, 70834, 70841, 70841, 70843, 70846, 70849, 70849, 70856,
      70863, 70874, 71039, 71087, 71089, 71094, 71099, 71102, 71102, 71134,
      71167, 71216, 71218, 71227, 71228, 71230, 71230, 71237, 71247, 71258,
      71263, 71277, 71295, 71340, 71340, 71342, 71343, 71350, 71350, 71354,
      71359, 71370, 71423, 71451, 71452, 71454, 71454, 71456, 71457, 71462,
      71462, 71468, 71471, 71495, 71679, 71724, 71726, 71736, 71736, 71740,
      71839, 71923, 71934, 71943, 71944, 71946, 71947, 71956, 71956, 71959,
      71959, 71984, 71994, 71997, 71997, 72000, 72000, 72002, 72002, 72007,
      72015, 72026, 72095, 72104, 72105, 72145, 72147, 72152, 72153, 72156,
      72159, 72164, 72191, 72249, 72249, 72264, 72271, 72279, 72280, 72343,
      72343, 72355, 72367, 72441, 72703, 72713, 72713, 72751, 72751, 72759,
      72759, 72766, 72766, 72774, 72783, 72813, 72815, 72848, 72849, 72872,
      72873, 72881, 72881, 72884, 72884, 72887, 72959, 72967, 72967, 72970,
      72970, 73015, 73017, 73019, 73019, 73022, 73022, 73032, 73039, 73050,
      73055, 73062, 73062, 73065, 73065, 73098, 73103, 73106, 73108, 73110,
      73110, 73113, 73119, 73130, 73439, 73461, 73462, 73465, 73647, 73649,
      73663, 73714, 73726, 74650, 74751, 74863, 74863, 74869, 74879, 75076,
      77711, 77811, 77823, 78895, 78895, 78905, 82943, 83527, 92159, 92729,
      92735, 92767, 92767, 92778, 92781, 92863, 92863, 92874, 92879, 92910,
      92911, 92918, 92927, 92998, 93007, 93018, 93018, 93026, 93026, 93048,
      93052, 93072, 93759, 93851, 93951, 94027, 94030, 94033, 94094, 94112,
      94175, 94181, 94207, 100344, 100351, 101590, 101631, 101641, 110575,
      110580, 110580, 110588, 110588, 110591, 110591, 110883, 110927, 110931,
      110947, 110952, 110959, 111356, 113663, 113771, 113775, 113789, 113791,
      113801, 113807, 113818, 113819, 113828, 118527, 118574, 118575, 118599,
      118607, 118724, 118783, 119030, 119039, 119079, 119080, 119141, 119142,
      119149, 119154, 119275, 119295, 119366, 119519, 119540, 119551, 119639,
      119647, 119673, 119807, 119893, 119893, 119965, 119965, 119968, 119969,
      119971, 119972, 119975, 119976, 119981, 119981, 119994, 119994, 119996,
      119996, 120004, 120004, 120070, 120070, 120075, 120076, 120085, 120085,
      120093, 120093, 120122, 120122, 120127, 120127, 120133, 120133, 120135,
      120137, 120145, 120145, 120486, 120487, 120780, 120781, 121484, 121498,
      121504, 121504, 121520, 122623, 122655, 122879, 122887, 122887, 122905,
      122906, 122914, 122914, 122917, 122917, 122923, 123135, 123181, 123183,
      123198, 123199, 123210, 123213, 123216, 123535, 123567, 123583, 123642,
      123646, 123648, 124895, 124903, 124903, 124908, 124908, 124911, 124911,
      124927, 124927, 125125, 125126, 125143, 125183, 125260, 125263, 125274,
      125277, 125280, 126064, 126133, 126208, 126270, 126463, 126468, 126468,
      126496, 126496, 126499, 126499, 126501, 126502, 126504, 126504, 126515,
      126515, 126520, 126520, 126522, 126522, 126524, 126529, 126531, 126534,
      126536, 126536, 126538, 126538, 126540, 126540, 126544, 126544, 126547,
      126547, 126549, 126550, 126552, 126552, 126554, 126554, 126556, 126556,
      126558, 126558, 126560, 126560, 126563, 126563, 126565, 126566, 126571,
      126571, 126579, 126579, 126584, 126584, 126589, 126589, 126591, 126591,
      126602, 126602, 126620, 126624, 126628, 126628, 126634, 126634, 126652,
      126703, 126706, 126975, 127020, 127023, 127124, 127135, 127151, 127152,
      127168, 127168, 127184, 127184, 127222, 127231, 127406, 127461, 127491,
      127503, 127548, 127551, 127561, 127567, 127570, 127583, 127590, 127743,
      128728, 128732, 128749, 128751, 128765, 128767, 128884, 128895, 128985,
      128991, 129004, 129007, 129009, 129023, 129036, 129039, 129096, 129103,
      129114, 129119, 129160, 129167, 129198, 129199, 129202, 129279, 129620,
      129631, 129646, 129647, 129653, 129655, 129661, 129663, 129671, 129679,
      129709, 129711, 129723, 129727, 129734, 129743, 129754, 129759, 129768,
      129775, 129783, 129791, 129939, 129939, 129995, 130031, 130042, 131071,
      173792, 173823, 177977, 177983, 178206, 178207, 183970, 183983, 191457,
      194559, 195102, 196607, 201547, 917504, 917506, 917535, 917632, 917759,
      918000, 983039, 1048574, 1048575, 1114110, 1114111>>

\* c lies in one of the ranges of table
InRanges(c, table) ==
    \E i \in 1..(Len(table) \div 2) : table[2 * i - 1] <= c /\ c <= table[2 * i]

\* \u{hex}
unicode_escape(c) == <<92, 117, 123>> \o Digits(c, 16) \o <<125>>

\* char::escape_debug as Debug of a str applies it to the scalar c: \0, \t,
\* \n, \r, \" and \\ are escaped with a backslash; a grapheme extender and a
\* scalar that is not printable are written \u{hex}; every other scalar is
\* written as it is.  For an unsettled scalar the result is <<-c>>, which
\* stands for either of the two.
escape_debug_scalar(c) ==
    CASE c = 0 -> <<92, 48>>
      [] c = 9 -> <<92, 116>>
      [] c = 10 -> <<92, 110>>
      [] c = 13 -> <<92, 114>>
      [] c \in {34, 92} -> <<92, c>>
      [] c < 32 \/ c = 127 -> unicode_escape(c)
      [] c >= 128 /\ InRanges(c, EscapedScalars) -> unicode_escape(c)
      [] c >= 128 /\ InRanges(c, UnsettledScalars) -> <<-c>>
      [] OTHER -> encode_utf8(c)

\* `{:?}` of a str with the UTF-8 bytes s, without the quotes around it:
\* escape_debug of each of its scalars in turn
RECURSIVE escape_debug(_)
escape_debug(s) ==
    IF s = <<>> THEN <<>>
    ELSE escape_debug_scalar(FirstScalar(s)) \o escape_debug(Drop(s, Utf8Width(s)))

\* serde::de::Error::invalid_type(unexp, exp) and invalid_value(unexp, exp)
\* through Error::custom: "invalid type: {unexp}, expected {exp}"
Invalid(what, unexp, exp) ==
    Custom(Ascii("invalid ") \o Ascii(what) \o Ascii(": ") \o unexp
           \o Ascii(", expected ") \o exp)

-----------------------------------------------------------------------------
(* write.rs and encode.rs: the byte sink and the encoder.                  *)
(*                                                                         *)
(* An encoder state is [sink, status, err]: the bytes its BytesWriter      *)
(* holds, and the Result of the call in progress ("ok", or "err" with the  *)
(* error).  Every Serializer method takes the state and returns the next.  *)

\* the room of a sink that grows as needed (BytesWriter, Vec<u8>)
NoLimit == -1

\* BytesWriter::new() wrapped by Encoder::new(); room is the number of bytes
\* the sink still accepts
NewEncoder == [sink |-> <<>>, status |-> "ok", err |-> NoError, room |-> NoLimit]

\* Err(e) returned from a Serializer method
EncFail(e, err) == [e EXCEPT !.status = "err", !.err = err]

\* BytesWriter::write_all appends the whole buffer to the Vec; write_all of
\* an io::Write of fixed size (a &mut [u8]) writes what fits and fails with
\* io::ErrorKind::WriteZero when that is not all
write_all(e, buf) ==
    IF e.room = NoLimit THEN [e EXCEPT !.sink = @ \o buf]
    ELSE IF Len(buf) <= e.room
    THEN [e EXCEPT !.sink = @ \o buf, !.room = @ - Len(buf)]
    ELSE EncFail([e EXCEPT !.sink = @ \o Take(buf, e.room), !.room = 0],
                 IoError("WriteZero"))

\* a plausible slip: `!v as u8`
serialize_bool_negated(e, v) == write_all(e, <<IF v THEN 0 ELSE 1>>)

\* serialize_bool: `&[v as u8]`
serialize_bool(e, v) == write_all(e, <<IF v THEN 1 ELSE 0>>)

\* serialize_i8 .. serialize_u128: `v.to_be_bytes()` (serialize_u8: `&[v]`)
serialize_int(e, t, v) == write_all(e, to_be_bytes(t, v))

\* serialize_f32 and serialize_f64: write_all(&v.to_be_bytes())
serialize_float(e, t, v) == write_all(e, to_be_bytes(t, v))

\* a plausible slip: the whole five-byte scratch buffer is written
serialize_char_whole_buffer(e, v) ==
    LET encoded_len == encode_len_small(len_utf8(v))
        utf8 == encode_utf8(v)
    IN  write_all(e, <<encoded_len>> \o utf8 \o [i \in 1..(4 - Len(utf8)) |-> encoded_len])

\* serialize_char
serialize_char(e, v) ==
    LET len == len_utf8(v)
        encoded_len == encode_len_small(len)
        utf8 == encode_utf8(v)
        \* [encoded_len; 5] with the scalar's UTF-8 bytes written at [1..]
        bytes == <<encoded_len>> \o utf8 \o [i \in 1..(4 - Len(utf8)) |-> encoded_len]
    IN  write_all(e, SubSeq(bytes, 1, len + 1))

\* a plausible slip: the payload is written without its length prefix
serialize_str_noprefix(e, v) == write_all(e, v)

\* serialize_str: v is the string's UTF-8 bytes, v.len() their count
serialize_str(e, v) == write_all(e, encode_len_large(ToUsize(Len(v))) \o v)

\* serialize_bytes
serialize_bytes(e, v) == write_all(e, encode_len_large(ToUsize(Len(v))) \o v)

\* serialize_none
serialize_none(e) == write_all(e, <<0>>)

\* serialize_some, up to `value.serialize(self)`
serialize_some_tag(e) == write_all(e, <<1>>)

\* serialize_unit and serialize_unit_struct
serialize_unit(e) == e

\* a plausible slip: `variant_index <= 256`
write_variant_index_offbyone(e, name, variant_index) ==
    IF variant_index <= 256
    THEN write_all(e, BeDigits(variant_index % 256, 1))
    ELSE EncFail(e, TooManyVariants(name))

\* the tag step shared by serialize_unit_variant, serialize_newtype_variant,
\* TupleVariantEncoder::new and StructVariantEncoder::new:
\* `(variant_index as u8).to_be_bytes()` when variant_index < 256
write_variant_index(e, name, variant_index) ==
    IF variant_index < 256
    THEN write_all(e, BeDigits(variant_index % 256, 1))
    ELSE EncFail(e, TooManyVariants(name))

\* SeqEncoder::new and MapEncoder::new
LenEncoder_new(e, len) == write_all(e, encode_len_large(len))

\* a plausible slip: the prefix is written before the length is looked at
serialize_seq_prefix_first(e, known, len) ==
    IF known THEN LenEncoder_new(e, len)
    ELSE EncFail(write_all(e, <<0>>), UnknownSeqLengthNotAllowed)

\* serialize_seq(len: Option<usize>)
serialize_seq(e, known, len) ==
    IF known THEN LenEncoder_new(e, len) ELSE EncFail(e, UnknownSeqLengthNotAllowed)

\* serialize_map(len: Option<usize>)
serialize_map(e, known, len) ==
    IF known THEN LenEncoder_new(e, len) ELSE EncFail(e, UnknownMapLengthNotAllowed)

\* a plausible slip: a tuple or struct is framed like a sequence
serialize_tuple_prefixed(e, len) == LenEncoder_new(e, len)

\* serialize_tuple, serialize_tuple_struct, serialize_struct(_len): the
\* encoder is wrapped and nothing is written
serialize_tuple(e, len) == e

\* a plausible slip: the field is left out and the call returns Ok
skip_field_silent(e, key) == e

\* SerializeStruct::skip_field / SerializeStructVariant::skip_field
skip_field(e, key) == EncFail(e, FieldSkippingNotAllowed(key))

\* what the compound Serializer methods do before the first child is
\* serialized
SerializeOpen(v, e) ==
    CASE v.t = "seq" -> serialize_seq(e, v.b, ToUsize(Len(v.xs)))
      [] v.t = "map" -> serialize_map(e, v.b, ToUsize(Len(v.xs) \div 2))
      [] v.t \in {"newtype_variant", "tuple_variant", "struct_variant"} ->
           write_variant_index(e, v.name, v.n)
      [] v.t = "option" -> serialize_some_tag(e)
      [] v.t \in {"tuple", "tuple_struct", "struct"} ->
           serialize_tuple(e, ToUsize(Len(v.xs)))
      [] v.t = "newtype_struct" -> e

\* value.serialize(&mut encoder): the walk of a value over the Serializer
\* methods; SerializeAll is serialize_element / serialize_field /
\* serialize_key / serialize_value on each child in order, stopping at the
\* first error (`?`)
RECURSIVE Serialize(_, _), SerializeAll(_, _)
Serialize(v, e) ==
    CASE v.t = "bool" -> serialize_bool(e, v.b)
      [] v.t \in IntTypes -> serialize_int(e, v.t, v)
      [] v.t \in FloatTypes -> serialize_float(e, v.t, v)
      [] v.t = "char" -> serialize_char(e, v.n)
      [] v.t \in {"str", "string"} -> serialize_str(e, v.bs)
      [] v.t \in {"bytes", "byte_buf"} -> serialize_bytes(e, v.bs)
      [] v.t = "option" /\ v.xs = <<>> -> serialize_none(e)
      [] v.t \in {"unit", "unit_struct"} -> serialize_unit(e)
      [] v.t = "unit_variant" -> write_variant_index(e, v.name, v.n)
      [] v.t = "skip" -> skip_field(e, v.name)
      [] OTHER ->
           LET opened == SerializeOpen(v, e)
           IN  IF opened.status = "ok" THEN SerializeAll(v.xs, opened) ELSE opened

\* a plausible slip: the children after a failed one are still serialized
SerializeAll_no_abort(xs, e) ==
    IF xs = <<>> THEN e
    ELSE IF Len(xs) = 1
    THEN IF e.status = "ok" THEN Serialize(xs[1], e)
         ELSE EncFail(Serialize(xs[1], e), e.err)
    ELSE LET half == Len(xs) \div 2
             left == SerializeAll(SubSeq(xs, 1, half), e)
         IN  IF left.status = "ok"
             THEN SerializeAll(SubSeq(xs, half + 1, Len(xs)), left)
             ELSE SerializeAll(SubSeq(xs, half + 1, Len(xs)), left)

SerializeAll(xs, e) ==
    IF xs = <<>> THEN e
    ELSE IF Len(xs) = 1 THEN Serialize(xs[1], e)
    ELSE \* the children in order, evaluated by halves
         LET half == Len(xs) \div 2
             left == SerializeAll(SubSeq(xs, 1, half), e)
         IN  IF left.status = "ok"
             THEN SerializeAll(SubSeq(xs, half + 1, Len(xs)), left)
             ELSE left

-----------------------------------------------------------------------------
(* read.rs: the byte sources.                                              *)
(*                                                                         *)
(* A reader is [kind, buf, pos]: "slice" is a BytesReader over buf whose   *)
(* remaining slice starts at offset pos; "stream" is an io::Read that      *)
(* yields buf from offset pos.  A read returns [rd, ok, err, bytes].       *)

\* BytesReader::new(bytes), or a stream holding bytes
NewReader(kind, bytes) == [kind |-> kind, buf |-> bytes, pos |-> 0]

\* self.bytes of a BytesReader; what a stream has left to yield
Remaining(rd) == Drop(rd.buf, rd.pos)

ReadOk(rd, bytes) == [rd |-> rd, ok |-> TRUE, err |-> NoError, bytes |-> bytes]
ReadErr(rd, err) == [rd |-> rd, ok |-> FALSE, err |-> err, bytes |-> <<>>]

\* a plausible slip: the part of the buffer that is not filled is cleared
ReadExactSlice_clearing(rd, buf) ==
    ReadOk([rd EXCEPT !.pos = @ + Min(Len(buf), Len(Remaining(rd)))],
           SubSeq(Remaining(rd), 1, Min(Len(buf), Len(Remaining(rd))))
               \o Zeros(Len(buf) - Min(Len(buf), Len(Remaining(rd)))))

\* BytesReader::read_exact: `buf.write(self.bytes)` copies as many bytes as
\* both hold, the cursor moves by that many, and the result is Ok
ReadExactSlice(rd, buf) ==
    LET num_bytes == Min(Len(buf), Len(Remaining(rd)))
    IN  ReadOk([rd EXCEPT !.pos = @ + num_bytes],
               SubSeq(Remaining(rd), 1, num_bytes) \o Drop(buf, num_bytes))

\* a plausible slip: a short read is reported as success, as the
\* slice-backed source does
ReadExactStream_lax(rd, buf) == ReadExactSlice(rd, buf)

\* read_exact of R: io::Read: io::Read::read_exact fills buf or fails with
\* an UnexpectedEof I/O error once the stream is drained
ReadExactStream(rd, buf) ==
    IF Len(buf) <= Len(Remaining(rd))
    THEN ReadOk([rd EXCEPT !.pos = @ + Len(buf)], SubSeq(Remaining(rd), 1, Len(buf)))
    ELSE ReadErr([rd EXCEPT !.pos = Len(rd.buf)], IoError("UnexpectedEof"))

\* Read::read_exact
read_exact(rd, buf) ==
    IF rd.kind = "slice" THEN ReadExactSlice(rd, buf) ELSE ReadExactStream(rd, buf)

\* Read::read_n_array::<N>: read_exact into [0; N]
read_n_array(rd, N) == read_exact(rd, Zeros(N))

\* Read::read_n_vec(n): read_exact into vec![0; n]
read_n_vec(rd, n) == read_exact(rd, [i \in 1..n |-> 0])

\* `self.read_n_vec(decoded_len)` of read_bytes_with_small_len once
\* `read_n_array::<1>()?` has returned len
small_body(len) ==
    IF ~len.ok THEN ReadErr(len.rd, len.err)
    ELSE read_n_vec(len.rd, decode_len_small(len.bytes[1]))

\* Read::read_bytes_with_small_len: a one-byte length, then that many bytes
read_bytes_with_small_len(rd) == small_body(read_n_array(rd, 1))

\* a plausible slip: the view is returned but the cursor stays
read_bytes_peek(rd, len) ==
    IF UsizeAtMost(len, Len(Remaining(rd)))
    THEN ReadOk(rd, SubSeq(Remaining(rd), 1, UsizeLow(len)))
    ELSE ReadErr(rd, UnexpectedEof)

\* a plausible slip: a failed read leaves the source drained
read_bytes_draining(rd, len) ==
    IF UsizeAtMost(len, Len(Remaining(rd)))
    THEN ReadOk([rd EXCEPT !.pos = @ + UsizeLow(len)],
                SubSeq(Remaining(rd), 1, UsizeLow(len)))
    ELSE ReadErr([rd EXCEPT !.pos = Len(rd.buf)], UnexpectedEof)

\* BytesReader::read_bytes(len: usize): `if len <= self.bytes.len()`, a view
\* of the next len bytes and the slice moved past them, else UnexpectedEof
read_bytes(rd, len) ==
    IF UsizeAtMost(len, Len(Remaining(rd)))
    THEN ReadOk([rd EXCEPT !.pos = @ + UsizeLow(len)],
                SubSeq(Remaining(rd), 1, UsizeLow(len)))
    ELSE ReadErr(rd, UnexpectedEof)

\* A length read returns [rd, ok, err, len] with len a usize.
LenErr(r) == [rd |-> r.rd, ok |-> FALSE, err |-> r.err, len |-> UsizeZero]

\* `let decoded_len2 = decode_len_large(&len2)` once `read_n_vec(decoded_len1)?`
\* has returned len2
read_len_tier2(len2) ==
    IF ~len2.ok THEN LenErr(len2)
    ELSE [rd |-> len2.rd, ok |-> TRUE, err |-> NoError, len |-> decode_len_large(len2.bytes)]

\* `let decoded_len1 = decode_len_small(len1[0]); let len2 =
\* self.read_n_vec(decoded_len1)?` once `read_n_array::<1>()?` has returned
\* len1
read_len_tier1(len1) ==
    IF ~len1.ok THEN LenErr(len1)
    ELSE read_len_tier2(read_n_vec(len1.rd, decode_len_small(len1.bytes[1])))

\* the two-tier length read shared by read_bytes_with_large_len,
\* BytesReader::visit_str / visit_bytes, deserialize_seq and deserialize_map
read_large_len(rd) == read_len_tier1(read_n_array(rd, 1))

\* vec![0; n] for n of 2^16 and more is outside the model: the call ends in
\* a capacity-overflow panic, an allocation failure or a buffer of that size
TooLarge(len) == UsizeToNat(len) = -1

\* `self.read_n_vec(decoded_len2)` once the length l is read; the result
\* is [rd, ok, err, bytes, large], `large` telling that l.len is TooLarge
read_body(l) ==
    IF ~l.ok THEN [ReadErr(l.rd, l.err) EXCEPT !.ok = FALSE] @@ [large |-> FALSE]
    ELSE IF TooLarge(l.len) THEN ReadErr(l.rd, NoError) @@ [large |-> TRUE]
    ELSE read_n_vec(l.rd, UsizeToNat(l.len)) @@ [large |-> FALSE]

\* Read::read_bytes_with_large_len
read_bytes_with_large_len(rd) == read_body(read_large_len(rd))

\* `self.read_bytes(decoded_len2)` of BytesReader::visit_str / visit_bytes
\* once the length l is read
read_view(l) ==
    IF ~l.ok THEN ReadErr(l.rd, l.err) ELSE read_bytes(l.rd, l.len)

\* `let string = std::str::from_utf8(bytes)?` of BytesReader::visit_str once
\* read_bytes has returned the view; visit_bytes hands the view over as it
\* is
utf8_checked(t, bytes) ==
    IF bytes.ok /\ t = "str" /\ ~Utf8Valid(bytes.bytes)
    THEN ReadErr(bytes.rd, Utf8Error)
    ELSE bytes

\* BytesReader::visit_str / visit_bytes up to the visitor call: what the
\* visitor is handed, or the error returned before it is called
view_for(rd, t) == utf8_checked(t, read_view(read_large_len(rd)))

-----------------------------------------------------------------------------
(* decode.rs: the decoder and its scoped drivers.                          *)
(*                                                                         *)
(* A decoder state is [rd, status, err, val, visits]: its reader, the      *)
(* Result of the call in progress ("ok"; "err" with the error; "panic";    *)
(* "large" when it goes on to a buffer or a count that is TooLarge), the   *)
(* value the visitor built last, and the visitor methods called so far.    *)

\* Decoder::new(reader)
NewDecoder(rd) ==
    [rd |-> rd, status |-> "ok", err |-> NoError, val |-> V("unit"), visits |-> <<>>]

\* Err(e) returned from a Deserializer method
DecFail(d, rd, err) == [d EXCEPT !.rd = rd, !.status = "err", !.err = err]

\* a panic (unwrap of None, slice index out of range, arithmetic overflow)
DecPanic(d, rd) == [d EXCEPT !.rd = rd, !.status = "panic"]

\* the announced length or count is TooLarge
DecLarge(d, rd) == [d EXCEPT !.rd = rd, !.status = "large"]

\* visitor.<call>(val) returning Ok
Visit(d, rd, call, val) ==
    [d EXCEPT !.rd = rd, !.val = val, !.visits = Append(@, call)]

\* a visitor method that is only entered; its value comes later
Enter(d, rd, call) == [d EXCEPT !.rd = rd, !.visits = Append(@, call)]

\* deserialize_bool once `read_n_array::<1>()` has returned bytes
bool_from(d, bytes) ==
    IF ~bytes.ok THEN DecFail(d, bytes.rd, bytes.err)
    ELSE CASE bytes.bytes[1] = 0 -> Visit(d, bytes.rd, "visit_bool", VBool(FALSE))
           [] bytes.bytes[1] = 1 -> Visit(d, bytes.rd, "visit_bool", VBool(TRUE))
           [] OTHER -> DecFail(d, bytes.rd, InvalidBytes("Bool", bytes.bytes))

\* deserialize_bool
deserialize_bool(d) == bool_from(d, read_n_array(d.rd, 1))

\* deserialize_<int> and deserialize_<float> once `read_n_array::<N>()` has
\* returned bytes
int_from(d, t, bytes) ==
    IF ~bytes.ok THEN DecFail(d, bytes.rd, bytes.err)
    ELSE Visit(d, bytes.rd, "visit_" \o t, from_be_bytes(t, bytes.bytes))

\* deserialize_i8 .. deserialize_u128: read_n_array::<N>, from_be_bytes
deserialize_int(d, t) == int_from(d, t, read_n_array(d.rd, Width(t)))

\* deserialize_f32 and deserialize_f64: read_n_array::<N>, from_be_bytes,
\* visit_f32 / visit_f64
deserialize_float(d, t) == int_from(d, t, read_n_array(d.rd, Width(t)))

\* deserialize_char once `read_exact(&mut bytes[4 - decoded_len..])` has
\* returned tail: from_utf8(..)?.chars().take(1).next().unwrap()
char_from(d, tail) ==
    IF ~tail.ok THEN DecFail(d, tail.rd, tail.err)
    ELSE IF ~Utf8Valid(tail.bytes) THEN DecFail(d, tail.rd, Utf8Error)
    ELSE IF tail.bytes = <<>> THEN DecPanic(d, tail.rd)
    ELSE Visit(d, tail.rd, "visit_char", VChar(FirstScalar(tail.bytes)))

\* deserialize_char once `read_n_array::<1>()` has returned len: the slice
\* index `4 - decoded_len` panics for a decoded_len above 4
char_width_from(d, len) ==
    IF ~len.ok THEN DecFail(d, len.rd, len.err)
    ELSE IF decode_len_small(len.bytes[1]) > 4 THEN DecPanic(d, len.rd)
    ELSE char_from(d, read_exact(len.rd, Zeros(decode_len_small(len.bytes[1]))))

\* deserialize_char
deserialize_char(d) == char_width_from(d, read_n_array(d.rd, 1))

\* the error of serde's default visit_str / visit_bytes for the visitor of a
\* borrowed target, which accepts only visit_borrowed_str /
\* visit_borrowed_bytes: invalid_type(Unexpected::Str(v) or
\* Unexpected::Bytes(v), &self), `string "<v>"` or `byte array`
ExpectedBorrowed(t, v) ==
    IF t = "str"
    THEN Invalid("type", Ascii("string \"") \o escape_debug(v) \o Ascii("\""),
                 Ascii("a borrowed string"))
    ELSE Invalid("type", Ascii("byte array"), Ascii("a borrowed byte array"))

\* BytesReader::visit_str / visit_bytes once read_bytes has returned the
\* view: visit_borrowed_str / visit_borrowed_bytes
borrowed_from(d, t, bytes) ==
    IF ~bytes.ok THEN DecFail(d, bytes.rd, bytes.err)
    ELSE IF t = "str" /\ ~Utf8Valid(bytes.bytes) THEN DecFail(d, bytes.rd, Utf8Error)
    ELSE Visit(d, bytes.rd, "visit_borrowed_" \o t, VText(t, bytes.bytes))

\* a plausible slip: the copy is handed over as if it were borrowed
copied_from_as_borrowed(d, t, bytes) ==
    IF bytes.large THEN DecLarge(d, bytes.rd)
    ELSE IF ~bytes.ok THEN DecFail(d, bytes.rd, bytes.err)
    ELSE Visit(d, bytes.rd, "visit_borrowed_" \o t, VText(t, bytes.bytes))

\* visit_str / visit_bytes of R: io::Read once read_bytes_with_large_len has
\* returned the copy: visitor.visit_str / visit_bytes, which the visitor of
\* a borrowed target rejects
copied_from(d, t, bytes) ==
    IF bytes.large THEN DecLarge(d, bytes.rd)
    ELSE IF ~bytes.ok THEN DecFail(d, bytes.rd, bytes.err)
    ELSE IF t = "str" /\ ~Utf8Valid(bytes.bytes) THEN DecFail(d, bytes.rd, Utf8Error)
    ELSE DecFail(Enter(d, bytes.rd, "visit_" \o t), bytes.rd,
                 ExpectedBorrowed(t, bytes.bytes))

\* deserialize_str and deserialize_bytes (Read::visit_str / visit_bytes): t
\* is "str" or "bytes"
deserialize_borrowed(d, t) ==
    IF d.rd.kind = "slice"
    THEN borrowed_from(d, t, read_view(read_large_len(d.rd)))
    ELSE copied_from(d, t, read_bytes_with_large_len(d.rd))

\* deserialize_string / deserialize_byte_buf once
\* read_bytes_with_large_len has returned bytes
owned_from(d, t, bytes) ==
    IF bytes.large THEN DecLarge(d, bytes.rd)
    ELSE IF ~bytes.ok THEN DecFail(d, bytes.rd, bytes.err)
    ELSE IF t = "string" /\ ~Utf8Valid(bytes.bytes) THEN DecFail(d, bytes.rd, Utf8Error)
    ELSE Visit(d, bytes.rd, "visit_" \o t, VText(t, bytes.bytes))

\* deserialize_string and deserialize_byte_buf: t is "string" or "byte_buf"
deserialize_owned(d, t) == owned_from(d, t, read_bytes_with_large_len(d.rd))

\* deserialize_any
deserialize_any(d) == DecFail(d, d.rd, CannotDeserializeAny)

\* a plausible slip: the value is skipped by reading one byte
deserialize_ignored_any_skip(d) == DecFail(d, read_n_array(d.rd, 1).rd, CannotDeserializeAny)

\* deserialize_ignored_any
deserialize_ignored_any(d) == DecFail(d, d.rd, CannotDeserializeAny)

\* deserialize_identifier
deserialize_identifier(d) == DecFail(d, d.rd, CannotDeserializeIdentifier)

\* a plausible slip: a unit is taken to occupy one byte
deserialize_unit_reads_byte(d, t) ==
    Visit(d, read_n_array(d.rd, 1).rd, "visit_unit", V(t))

\* deserialize_unit and deserialize_unit_struct
deserialize_unit(d, t) == Visit(d, d.rd, "visit_unit", V(t))

\* deserialize_option once `read_n_array::<1>()` has returned the
\* discriminant, up to the visitor call: visit_none is complete,
\* visit_some(self) goes on to decode the payload
option_from(d, discriminant) ==
    IF ~discriminant.ok THEN DecFail(d, discriminant.rd, discriminant.err)
    ELSE CASE discriminant.bytes[1] = 0 ->
                Visit(d, discriminant.rd, "visit_none", VNone)
           [] discriminant.bytes[1] = 1 ->
                Enter(d, discriminant.rd, "visit_some")
           [] OTHER ->
                DecFail(d, discriminant.rd, InvalidBytes("Option", discriminant.bytes))

\* deserialize_option up to the visitor call
option_discriminant(d) == option_from(d, read_n_array(d.rd, 1))

\* deserialize_seq / deserialize_map once the length l is read, up to the
\* visitor call: the driver's decoder and count, [d, len]
driver_from(d, call, l) ==
    IF ~l.ok THEN [d |-> DecFail(d, l.rd, l.err), len |-> 0]
    ELSE IF TooLarge(l.len) THEN [d |-> DecLarge(d, l.rd), len |-> 0]
    ELSE [d |-> Enter(d, l.rd, call), len |-> UsizeToNat(l.len)]

\* deserialize_seq and deserialize_map up to the visitor call
len_prefix(d, call) == driver_from(d, call, read_large_len(d.rd))

\* the error of a derived enum's variant identifier visitor for an index
\* that names none of its n variants: invalid_value(Unexpected::Unsigned(i),
\* &"variant index 0 <= i < n"), the integer between grave accents
ExpectedVariantIndex(i, n) ==
    Invalid("value", Ascii("integer ") \o <<96>> \o Decimal(i) \o <<96>>,
            Ascii("variant index 0 <= i < ") \o Decimal(n))

\* EnumAccess::variant_seed once `read_n_array::<1>()` has returned the tag:
\* seed.deserialize(variant_index.into_deserializer()) calls visit_u8 of the
\* enum's variant identifier visitor (serde forwards it to visit_u64), which
\* resolves the index (index < number of variants, else invalid_value)
variant_from(d, sh, variant_index) ==
    IF ~variant_index.ok THEN DecFail(d, variant_index.rd, variant_index.err)
    ELSE IF variant_index.bytes[1] >= Len(sh.xs)
    THEN DecFail(Enter(d, variant_index.rd, "visit_u8"), variant_index.rd,
                 ExpectedVariantIndex(variant_index.bytes[1], Len(sh.xs)))
    ELSE Visit(d, variant_index.rd, "visit_u8", VInt("u8", variant_index.bytes[1]))

\* EnumAccess::variant_seed
variant_seed(d, sh) == variant_from(d, sh, read_n_array(d.rd, 1))

\* The drivers hold [d, len]: the decoder and the remaining count; a step
\* returns [d, len, some].

\* SeqDecoder::new / MapDecoder::new
NewDriver(d, len) == [d |-> d, len |-> len]

\* SeqAccess::size_hint / MapAccess::size_hint
size_hint(drv) == drv.len

RECURSIVE Decode(_, _), next_element_seed(_, _), next_key_seed(_, _),
          next_value_seed(_, _), TakeElements(_, _, _), VisitElements(_, _, _),
          VisitFields(_, _, _, _),
          VisitEntries(_, _, _), VisitVariant(_, _, _)

\* a plausible slip: the count is decremented once the element is decoded,
\* so a failed decode leaves it as it was
next_element_seed_decrement_after(drv, seed) ==
    IF drv.len > 0
    THEN [d |-> Decode(seed, drv.d),
          len |-> IF Decode(seed, drv.d).status = "ok" THEN drv.len - 1 ELSE drv.len,
          some |-> TRUE]
    ELSE [d |-> drv.d, len |-> drv.len, some |-> FALSE]

\* SeqAccess::next_element_seed, with seed the element's shape
next_element_seed(drv, seed) ==
    IF drv.len > 0
    THEN [d |-> Decode(seed, drv.d), len |-> drv.len - 1, some |-> TRUE]
    ELSE [d |-> drv.d, len |-> drv.len, some |-> FALSE]

\* MapAccess::next_key_seed
next_key_seed(drv, seed) ==
    IF drv.len > 0
    THEN [d |-> Decode(seed, drv.d), len |-> drv.len - 1, some |-> TRUE]
    ELSE [d |-> drv.d, len |-> drv.len, some |-> FALSE]

\* a plausible slip: the value step decrements the count as well
next_value_seed_decrementing(drv, seed) ==
    [d |-> Decode(seed, drv.d), len |-> drv.len - 1, some |-> TRUE]

\* MapAccess::next_value_seed
next_value_seed(drv, seed) ==
    [d |-> Decode(seed, drv.d), len |-> drv.len, some |-> TRUE]

\* k calls of next_element_seed in a row, stopping at the first error, as
\* [d, len, vals]; evaluated by halves
TakeElements(drv, seed, k) ==
    IF k = 0 THEN [d |-> drv.d, len |-> drv.len, vals |-> <<>>]
    ELSE IF k = 1
    THEN LET step == next_element_seed(drv, seed)
         IN  [d |-> step.d, len |-> step.len,
              vals |-> IF step.some /\ step.d.status = "ok" THEN <<step.d.val>> ELSE <<>>]
    ELSE LET left == TakeElements(drv, seed, k \div 2)
             right == TakeElements(NewDriver(left.d, left.len), seed, k - (k \div 2))
         IN  IF left.d.status # "ok" THEN left
             ELSE [d |-> right.d, len |-> right.len, vals |-> left.vals \o right.vals]

\* the visitor of a sequence target (Vec<T>): next_element until None;
\* acc are the elements so far
VisitElements(drv, seed, acc) ==
    LET taken == TakeElements(drv, seed, size_hint(drv))
        last == next_element_seed(NewDriver(taken.d, taken.len), seed)
    IN  IF taken.d.status # "ok" THEN taken.d
        ELSE IF ~last.some
        THEN [last.d EXCEPT !.val = VColl("seq", TRUE, acc \o taken.vals)]
        ELSE IF last.d.status # "ok" THEN last.d
        ELSE VisitElements(NewDriver(last.d, last.len), seed,
                           acc \o taken.vals \o <<last.d.val>>)

\* what the visitor of a tuple, tuple struct, struct, tuple variant or
\* struct variant target says it expects (Visitor::expecting of serde's
\* tuple implementations and of the derived visitors); sh.name is the name
\* of the struct or of the variant, enum the name of a variant's enum
Expecting(sh, enum) ==
    IF sh.t = "tuple" THEN Ascii("a tuple of size ") \o Decimal(Len(sh.xs))
    ELSE (CASE sh.t = "tuple_struct" -> Ascii("tuple struct ")
            [] sh.t = "struct" -> Ascii("struct ")
            [] sh.t = "tuple_variant" ->
                 Ascii("tuple variant ") \o Ascii(enum) \o Ascii("::")
            [] sh.t = "struct_variant" ->
                 Ascii("struct variant ") \o Ascii(enum) \o Ascii("::"))
         \o Ascii(sh.name) \o Ascii(" with ") \o Decimal(Len(sh.xs))
         \o Ascii(IF Len(sh.xs) = 1 THEN " element" ELSE " elements")

\* serde::de::Error::invalid_length(len, exp) through Error::custom:
\* "invalid length {len}, expected {exp}"
InvalidLength(len, exp) ==
    Custom(Ascii("invalid length ") \o Decimal(len) \o Ascii(", expected ") \o exp)

\* the visitor of a tuple, tuple struct or struct target: one next_element
\* per declared field, and invalid_length with the field's index when the
\* driver has none left; acc are the fields so far, exp is what the visitor
\* expects
VisitFields(drv, seeds, acc, exp) ==
    IF seeds = <<>> THEN [drv.d EXCEPT !.val = VKids("tuple", acc)]
    ELSE LET step == next_element_seed(drv, Head(seeds))
         IN  IF step.d.status # "ok" THEN step.d
             ELSE IF ~step.some
             THEN DecFail(step.d, step.d.rd, InvalidLength(Len(acc), exp))
             ELSE VisitFields(NewDriver(step.d, step.len), Tail(seeds),
                              Append(acc, step.d.val), exp)

\* the visitor of a map target: next_key then next_value until no key is
\* left; acc are the keys and values so far
VisitEntries(drv, seeds, acc) ==
    LET key == next_key_seed(drv, seeds[1])
        val == next_value_seed(NewDriver(key.d, key.len), seeds[2])
    IN  IF key.d.status # "ok" THEN key.d
        ELSE IF ~key.some THEN [key.d EXCEPT !.val = VColl("map", TRUE, acc)]
        ELSE IF val.d.status # "ok" THEN val.d
        ELSE VisitEntries(NewDriver(val.d, val.len), seeds,
                          acc \o <<key.d.val, val.d.val>>)

\* VariantAccess for VariantDecoder: unit_variant, newtype_variant_seed,
\* tuple_variant, struct_variant, as the enum's visitor asks for the
\* variant `variant` of shape vsh
VisitVariant(d, sh, variant) ==
    LET vsh == sh.xs[variant + 1]
        payload ==
            CASE vsh.t = "unit_variant" -> [d EXCEPT !.val = VKids("tuple", <<>>)]
              [] vsh.t = "newtype_variant" ->
                   LET inner == Decode(vsh.xs[1], d)
                   IN  IF inner.status # "ok" THEN inner
                       ELSE [inner EXCEPT !.val = VKids("tuple", <<inner.val>>)]
              [] OTHER ->
                   VisitFields(NewDriver(Enter(d, d.rd, "visit_seq"), Len(vsh.xs)),
                               vsh.xs, <<>>, Expecting(vsh, sh.name))
    IN  IF payload.status # "ok" THEN payload
        ELSE [payload EXCEPT !.val = VVariant(vsh.t, sh.name, variant, payload.val.xs)]

\* T::deserialize(&mut decoder) for a target of shape sh: the Deserializer
\* method the target calls and what its visitor does with the drivers
Decode(sh, d) ==
    CASE sh.t = "any" -> deserialize_any(d)
      [] sh.t = "ignored_any" -> deserialize_ignored_any(d)
      [] sh.t = "identifier" -> deserialize_identifier(d)
      [] sh.t = "bool" -> deserialize_bool(d)
      [] sh.t \in IntTypes -> deserialize_int(d, sh.t)
      [] sh.t \in FloatTypes -> deserialize_float(d, sh.t)
      [] sh.t = "char" -> deserialize_char(d)
      [] sh.t \in {"str", "bytes"} -> deserialize_borrowed(d, sh.t)
      [] sh.t \in {"string", "byte_buf"} -> deserialize_owned(d, sh.t)
      [] sh.t \in {"unit", "unit_struct"} -> deserialize_unit(d, sh.t)
      [] sh.t = "option" ->
           LET disc == option_discriminant(d)
               some == Decode(sh.xs[1], disc)
           IN  IF disc.status # "ok" \/ disc.visits[Len(disc.visits)] = "visit_none"
               THEN disc
               ELSE IF some.status # "ok" THEN some
               ELSE [some EXCEPT !.val = VSome(some.val)]
      [] sh.t = "newtype_struct" ->
           LET inner == Decode(sh.xs[1], Enter(d, d.rd, "visit_newtype_struct"))
           IN  IF inner.status # "ok" THEN inner
               ELSE [inner EXCEPT !.val = VKids("newtype_struct", <<inner.val>>)]
      [] sh.t = "seq" ->
           LET start == len_prefix(d, "visit_seq")
           IN  IF start.d.status # "ok" THEN start.d
               ELSE VisitElements(NewDriver(start.d, start.len), sh.xs[1], <<>>)
      [] sh.t = "map" ->
           LET start == len_prefix(d, "visit_map")
           IN  IF start.d.status # "ok" THEN start.d
               ELSE VisitEntries(NewDriver(start.d, start.len), sh.xs, <<>>)
      [] sh.t \in {"tuple", "tuple_struct", "struct"} ->
           \* deserialize_tuple(len), deserialize_tuple_struct(len),
           \* deserialize_struct(fields): SeqDecoder::new(self, len)
           LET fields == VisitFields(NewDriver(Enter(d, d.rd, "visit_seq"), Len(sh.xs)),
                                     sh.xs, <<>>, Expecting(sh, ""))
           IN  IF fields.status # "ok" THEN fields
               ELSE [fields EXCEPT !.val = VKids(sh.t, fields.val.xs)]
      [] sh.t = "enum" ->
           \* deserialize_enum: visit_enum(EnumDecoder::new(self))
           LET tag == variant_seed(Enter(d, d.rd, "visit_enum"), sh)
           IN  IF tag.status # "ok" THEN tag
               ELSE VisitVariant(tag, sh, tag.val.n)

-----------------------------------------------------------------------------
(* The values the callers of the model serialize, each with the shape of   *)
(* its type: [sh, v].                                                      *)

Case(sh, v) == [sh |-> sh, v |-> v]

\* all sequences over set of length at most n
RECURSIVE SeqsUpTo(_, _)
SeqsUpTo(set, n) ==
    IF n = 0 THEN {<<>>}
    ELSE LET shorter == SeqsUpTo(set, n - 1)
         IN  shorter \cup {Append(q, x) : q \in shorter, x \in set}

RECURSIVE Flatten(_)
Flatten(pairs) == IF pairs = <<>> THEN <<>> ELSE Head(pairs) \o Flatten(Tail(pairs))

BoolCases == {Case(S("bool"), VBool(x)) : x \in BOOLEAN}

SmallIntCases ==
    {Case(S("i8"), VInt("i8", x)) : x \in {-128, -1, 0, 127}}
    \cup {Case(S("u8"), VInt("u8", x)) : x \in {0, 1, 2, 5, 255}}
    \cup {Case(S("i16"), VInt("i16", x)) : x \in {-32768, -1, 255}}
    \cup {Case(S("u16"), VInt("u16", x)) : x \in {256, 65535}}

\* 32-, 64- and 128-bit integers by their 16-bit limbs: the extremes of
\* each type, -1 and a value with a zero byte in the middle
WideIntCases ==
    {Case(S("i32"), VWide("i32", x)) : x \in {<<-32768, 0>>, <<-1, 65535>>, <<0, 258>>}}
    \cup {Case(S("u32"), VWide("u32", x)) : x \in {<<65535, 65535>>, <<1, 0>>}}
    \cup {Case(S("i64"), VWide("i64", x)) :
             x \in {<<-32768, 0, 0, 0>>, <<32767, 65535, 65535, 65535>>}}
    \cup {Case(S("u64"), VWide("u64", <<65535, 65535, 65535, 65535>>))}
    \cup {Case(S("i128"), VWide("i128", <<-32768, 0, 0, 0, 0, 0, 0, 0>>))}
    \cup {Case(S("u128"), VWide("u128", [i \in 1..8 |-> 65535]))}

\* 1.5, 6.25 and -0.0 as f32; -2.0, 3.125 and +infinity as f64
FloatCases ==
    {Case(S("f32"), VFloat("f32", x[1], x[2], x[3])) :
        x \in {<<FALSE, 127, <<64, 0>>>>, <<FALSE, 129, <<72, 0>>>>,
               <<TRUE, 0, <<0, 0>>>>}}
    \cup {Case(S("f64"), VFloat("f64", x[1], x[2], x[3])) :
             x \in {<<TRUE, 1024, <<0, 0, 0, 0>>>>, <<FALSE, 1024, <<9, 0, 0, 0>>>>,
                    <<FALSE, 2047, <<0, 0, 0, 0>>>>}}

\* scalar values at both ends of each UTF-8 width, around the surrogates
CharCases ==
    {Case(S("char"), VChar(c)) :
        c \in {0, 65, 127, 128, 233, 2047, 2048, 8364, 55295, 57344, 65535,
               65536, 128512, 1114111}}

\* "", "hi", "\u{e9}", "my string"
Texts == {<<>>, <<104, 105>>, <<195, 169>>,
          <<109, 121, 32, 115, 116, 114, 105, 110, 103>>}

TextCases == {Case(S(t), VText(t, x)) : t \in {"str", "string"}, x \in Texts}

\* byte buffers: short ones, and 255 and 256 bytes for the one- and
\* two-byte length prefix
Buffers == SeqsUpTo({0, 255}, MaxSeqLen) \cup {<<0, 1, 2, 3>>}
           \cup {[i \in 1..255 |-> i % 256], [i \in 1..256 |-> i % 256]}

BufferCases == {Case(S(t), VText(t, x)) : t \in {"bytes", "byte_buf"}, x \in Buffers}

OptU8 == SKids("option", <<S("u8")>>)
OptOptU8 == SKids("option", <<OptU8>>)
OptStr == SKids("option", <<S("string")>>)

OptionCases ==
    {Case(OptU8, VNone), Case(OptU8, VSome(VInt("u8", 4))),
     Case(OptOptU8, VNone), Case(OptOptU8, VSome(VNone)),
     Case(OptOptU8, VSome(VSome(VInt("u8", 7)))),
     Case(OptStr, VSome(VText("string", <<104, 105>>)))}

UnitCases ==
    {Case(S("unit"), V("unit")), Case(S("unit_struct"), V("unit_struct")),
     Case(SKids("newtype_struct", <<S("u8")>>), VKids("newtype_struct", <<VInt("u8", 5)>>))}

SeqU8 == SKids("seq", <<S("u8")>>)
SeqUnit == SKids("seq", <<S("unit")>>)
SeqStr == SKids("seq", <<S("string")>>)

\* sequences with a known length: Vec<u8>, 256 units (a two-byte prefix and
\* no payload), Vec<String>
SeqCases ==
    {Case(SeqU8, VColl("seq", TRUE, q)) :
        q \in SeqsUpTo({VInt("u8", 0), VInt("u8", 7)}, MaxSeqLen)}
    \cup {Case(SeqUnit, VColl("seq", TRUE, [i \in 1..256 |-> V("unit")]))}
    \cup {Case(SeqStr, VColl("seq", TRUE, <<VText("string", <<104, 105>>),
                                           VText("string", <<>>)>>))}

MapU8 == SKids("map", <<S("u8"), S("u8")>>)

\* maps with a known length; xs alternates keys and values in iteration
\* order
MapCases ==
    {Case(MapU8, VColl("map", TRUE, Flatten(q))) :
        q \in SeqsUpTo({<<VInt("u8", 15), VInt("u8", 16)>>,
                        <<VInt("u8", 17), VInt("u8", 0)>>}, MaxSeqLen)}

\* sequences and maps whose length is not known ahead of encoding
UnknownLenCases ==
    {Case(SeqU8, VColl("seq", FALSE, q)) : q \in {<<>>, <<VInt("u8", 7)>>}}
    \cup {Case(MapU8, VColl("map", FALSE, q)) :
             q \in {<<>>, <<VInt("u8", 15), VInt("u8", 16)>>}}

Fields3 == <<S("unit"), S("bool"), S("u8")>>
Vals3(x, y) == <<V("unit"), VBool(x), VInt("u8", y)>>

\* the record {flag: true, code: -1, label: "hi"} of the specification
Record == SKids("struct", <<S("bool"), S("i8"), S("string")>>)
RecordValue == VKids("struct", <<VBool(TRUE), VInt("i8", -1), VText("string", <<104, 105>>)>>)

TupleCases ==
    {Case(SKids(t, Fields3), VKids(t, Vals3(x, y))) :
        t \in {"tuple", "tuple_struct", "struct"}, x \in BOOLEAN, y \in {12, 255}}
    \cup {Case(Record, RecordValue)}
    \cup {Case(SKids("tuple", <<SeqU8, S("u8")>>),
               VKids("tuple", <<VColl("seq", TRUE, <<VInt("u8", 7)>>), VInt("u8", 9)>>))}
    \* twelve u8: as a framed text, a tier-1 byte of 9, nine tier-2 bytes
    \* that denote 2^64 + 2, and "hi"
    \cup {Case(SKids("tuple", [i \in 1..12 |-> S("u8")]),
               VKids("tuple", [i \in 1..12 |->
                                 VInt("u8", <<9, 1, 0, 0, 0, 0, 0, 0, 0, 2, 104, 105>>[i])]))}
    \* (2u8, b'h', b'i'): as a char encoding, a width byte and two scalars
    \cup {Case(SKids("tuple", <<S("u8"), S("u8"), S("u8")>>),
               VKids("tuple", <<VInt("u8", 2), VInt("u8", 104), VInt("u8", 105)>>))}

\* enum MyEnum { UnitVariant, NewtypeVariant(u8), TupleVariant((), bool, u8),
\*               StructVariant { a: (), b: bool, c: u8 } }
MyEnum ==
    SEnum("MyEnum", <<S("unit_variant"), SKids("newtype_variant", <<S("u8")>>),
                      SKids("tuple_variant", Fields3), SKids("struct_variant", Fields3)>>)

EnumCases ==
    {Case(MyEnum, VVariant("unit_variant", "MyEnum", 0, <<>>)),
     Case(MyEnum, VVariant("newtype_variant", "MyEnum", 1, <<VInt("u8", 6)>>)),
     Case(MyEnum, VVariant("tuple_variant", "MyEnum", 2, Vals3(FALSE, 14))),
     Case(MyEnum, VVariant("struct_variant", "MyEnum", 3, Vals3(FALSE, 22)))}

\* the number of variants of the enums Big_<kind>
BigVariants == 300

VariantFields(kind) ==
    CASE kind = "unit_variant" -> <<>>
      [] kind = "newtype_variant" -> <<S("u8")>>
      [] OTHER -> <<S("bool"), S("u8")>>

VariantVals(kind) ==
    CASE kind = "unit_variant" -> <<>>
      [] kind = "newtype_variant" -> <<VInt("u8", 6)>>
      [] OTHER -> <<VBool(TRUE), VInt("u8", 6)>>

VariantKinds == {"unit_variant", "newtype_variant", "tuple_variant", "struct_variant"}

\* an enum of BigVariants variants, all of the same kind
Big(kind) == SEnum("Big_" \o kind, [i \in 1..BigVariants |-> SKids(kind, VariantFields(kind))])

\* variants 0, 254, 255 (the last that fits the tag byte), 256 and 299
BigEnumCases ==
    {Case(Big(kind), VVariant(kind, "Big_" \o kind, idx, VariantVals(kind))) :
        kind \in VariantKinds, idx \in {254, 255, 256, BigVariants - 1}}

\* values that hold a child that cannot be encoded, after one that can
NestedFailCases ==
    {Case(SKids("tuple", <<S("u8"), SeqU8>>),
          VKids("tuple", <<VInt("u8", 5), VColl("seq", FALSE, <<VInt("u8", 7)>>)>>)),
     Case(SKids("option", <<MapU8>>), VSome(VColl("map", FALSE, <<>>))),
     Case(SKids("seq", <<Big("unit_variant")>>),
          VColl("seq", TRUE, <<VVariant("unit_variant", "Big_unit_variant", 255, <<>>),
                               VVariant("unit_variant", "Big_unit_variant", 256, <<>>)>>))}

\* structs and struct variants whose Serialize implementation skips a field
SkipCases ==
    {Case(SKids("struct", <<S("u8"), S("u8")>>),
          VKids("struct", <<VInt("u8", 5), VSkip("b"), VInt("u8", 7)>>)),
     Case(SKids("struct", <<S("u8")>>),
          VKids("struct", <<VSkip("a"), VInt("u8", 7)>>)),
     Case(MyEnum, VVariant("struct_variant", "MyEnum", 3,
                           <<V("unit"), VBool(TRUE), VSkip("c")>>))}

\* the values that are written behind another value's bytes of any length
SecondCases ==
    {Case(S("bool"), VBool(TRUE)),
     Case(S("string"), VText("string", <<104, 105>>)),
     Case(SeqU8, VColl("seq", TRUE, <<VInt("u8", 7)>>)),
     Case(OptU8, VNone),
     Case(MyEnum, VVariant("struct_variant", "MyEnum", 3, Vals3(FALSE, 22)))}

Cases ==
    BoolCases \cup SmallIntCases \cup WideIntCases \cup FloatCases \cup CharCases \cup TextCases
    \cup BufferCases \cup OptionCases \cup UnitCases \cup SeqCases \cup MapCases
    \cup UnknownLenCases \cup TupleCases \cup EnumCases \cup BigEnumCases
    \cup NestedFailCases \cup SkipCases

\* shapes requested of bytes that were written for another shape
Probes ==
    {S("bool"), OptU8, OptOptU8, SKids("option", <<S("bool")>>),
     S("str"), S("bytes"), S("char"),
     S("any"), S("ignored_any"), S("identifier"), MyEnum,
     S("string"), SeqU8,
     SKids("option", <<S("any")>>), SKids("tuple", <<S("u8"), S("ignored_any")>>)}

-----------------------------------------------------------------------------
(* lib.rs: the entry points, and the state machine of their caller.        *)

\* lengths handed to the length codec: every usize with digits 0, 1 or 255
Lengths == {u \in [1..UsizeBytes -> {0, 1, 255}] : TRUE}

IdleCodec ==
    [pc |-> "idle", len |-> UsizeZero, len_encoded |-> <<>>,
     decoded_len1 |-> 0, decoded_len2 |-> UsizeZero]

NoCase == Case(S("unit"), V("unit"))

IdleDecoder == NewDecoder(NewReader("slice", <<>>))

\* no session on a byte source is open
IdleSession ==
    [pc |-> "idle", rd |-> NewReader("slice", <<>>), before |-> NewReader("slice", <<>>),
     buf |-> <<>>, calls |-> 0, res |-> ReadOk(NewReader("slice", <<>>), <<>>)]

\* no driver has been handed to a visitor
IdleDriver ==
    [pc |-> "idle", kind |-> "seq", n |-> 0, drv |-> NewDriver(IdleDecoder, 0),
     before |-> NewDriver(IdleDecoder, 0), steps |-> 0, entered |-> 0,
     some |-> FALSE, hint |-> 0]

\* serialize(value): a fresh BytesWriter, value.serialize(&mut encoder)
serialize(v) == Serialize(v, NewEncoder)

\* the sink holds exactly the encoding of the latest value
RoundTripReady == enc.status = "ok" /\ enc.sink = serialize(value.v).sink

Init ==
    /\ lc = IdleCodec
    /\ pc = "idle"
    /\ value = NoCase
    /\ enc = NewEncoder
    /\ target = S("unit")
    /\ dec = IdleDecoder
    /\ io = IdleSession
    /\ prior = <<>>
    /\ ds = IdleDriver

\* serialize_into(value, writer): value.serialize(&mut Encoder::new(writer));
\* from an empty writer this is serialize(value).  A writer takes two calls
\* at most.
SerializeInto(c) ==
    /\ \/ pc = "idle"
       \/ /\ pc = "encoded" /\ prior = <<>>
          /\ Len(enc.sink) <= MaxSink \/ (RoundTripReady /\ c \in SecondCases)
    /\ value' = c
    /\ enc' = Serialize(c.v, [enc EXCEPT !.status = "ok", !.err = NoError])
    /\ prior' = IF pc = "encoded" THEN <<value>> ELSE <<>>
    /\ pc' = "encoded"
    /\ UNCHANGED <<lc, target, dec, io, ds>>

\* serialize_into(value, writer) for a writer that accepts room more bytes:
\* a new one, or the one of the call before with the room that call left
SerializeIntoLimited(c, room) ==
    /\ \/ pc = "idle"
       \/ /\ pc = "encoded_limited" /\ prior = <<>> /\ enc.status = "ok"
          /\ enc.room = room /\ c \in SecondCases
    /\ value' = c
    /\ enc' = Serialize(c.v, [enc EXCEPT !.status = "ok", !.err = NoError, !.room = room])
    /\ prior' = IF pc = "idle" THEN <<>> ELSE <<value>>
    /\ pc' = "encoded_limited"
    /\ UNCHANGED <<lc, target, dec, io, ds>>

\* the sink holds serialize(a) ++ serialize(b) for a = prior[1], b = value
TwoReady ==
    /\ prior # <<>>
    /\ serialize(prior[1].v).status = "ok"
    /\ enc.status = "ok"
    /\ enc.sink = serialize(prior[1].v).sink \o serialize(value.v).sink

\* the shapes a decode call asks for: a probe on the bytes of one encode
\* call, or the shape of the value whose encoding the sink holds
Requested(sh) == (sh \in Probes /\ prior = <<>>) \/ (sh = value.sh /\ RoundTripReady)

\* deserialize::<T>(bytes): T::deserialize(&mut Decoder::new(BytesReader::new(bytes)))
Deserialize(sh) ==
    /\ pc = "encoded"
    /\ Requested(sh)
    /\ target' = sh
    /\ dec' = Decode(sh, NewDecoder(NewReader("slice", enc.sink)))
    /\ pc' = "decoded"
    /\ UNCHANGED <<lc, value, enc, io, prior, ds>>

\* deserialize_from::<T>(reader): the same over a stream that holds bytes
DeserializeFrom(sh) ==
    /\ pc = "encoded"
    /\ Requested(sh)
    /\ target' = sh
    /\ dec' = Decode(sh, NewDecoder(NewReader("stream", enc.sink)))
    /\ pc' = "decoded"
    /\ UNCHANGED <<lc, value, enc, io, prior, ds>>

\* deserialize::<T>(&bytes[..n]) / deserialize_from::<T>(&bytes[..n]) for a
\* strict prefix of the bytes that serialize(value) returned
DeserializePrefix(kind, n) ==
    /\ pc = "encoded"
    /\ prior = <<>>
    /\ RoundTripReady
    /\ n < Len(enc.sink)
    /\ target' = value.sh
    /\ dec' = Decode(value.sh, NewDecoder(NewReader(kind, Take(enc.sink, n))))
    /\ pc' = "decoded_prefix"
    /\ UNCHANGED <<lc, value, enc, io, prior, ds>>

\* T::deserialize(&mut decoder) on a new Decoder over the bytes of two
\* values, for the shape of the first
DeserializeFirst(kind) ==
    /\ pc = "encoded"
    /\ TwoReady
    /\ target' = prior[1].sh
    /\ dec' = Decode(prior[1].sh, NewDecoder(NewReader(kind, enc.sink)))
    /\ pc' = "decoded_first"
    /\ UNCHANGED <<lc, value, enc, io, prior, ds>>

\* U::deserialize(&mut decoder) on the same Decoder, for the shape of the
\* second value
DeserializeSecond ==
    /\ pc = "decoded_first"
    /\ dec.status = "ok"
    /\ target' = value.sh
    /\ dec' = Decode(value.sh, dec)
    /\ pc' = "decoded_second"
    /\ UNCHANGED <<lc, value, enc, io, prior, ds>>

Next ==
    \/ \E c \in Cases : SerializeInto(c)
    \/ \E c \in Cases, room \in 0..MaxRoom : SerializeIntoLimited(c, room)
    \/ \E kind \in {"slice", "stream"} : DeserializeFirst(kind)
    \/ DeserializeSecond
    \/ \E sh \in Probes \cup {value.sh} : Deserialize(sh)
    \/ \E sh \in Probes \cup {value.sh} : DeserializeFrom(sh)
    \/ \E kind \in {"slice", "stream"}, n \in 0..Len(enc.sink) : DeserializePrefix(kind, n)

Spec == Init /\ [][Next]_vars

\* The length codec on its own: a caller encodes a length and decodes the
\* result the way the readers do (tier 1, then tier 2).

LenInit ==
    /\ lc \in {[IdleCodec EXCEPT !.pc = "start", !.len = u] : u \in Lengths}
    /\ pc = "idle"
    /\ value = NoCase
    /\ enc = NewEncoder
    /\ target = S("unit")
    /\ dec = IdleDecoder
    /\ io = IdleSession
    /\ prior = <<>>
    /\ ds = IdleDriver

EncodeLen ==
    /\ lc.pc = "start"
    /\ lc' = [lc EXCEPT !.pc = "encoded", !.len_encoded = encode_len_large(lc.len)]
    /\ UNCHANGED <<pc, value, enc, target, dec, io, prior, ds>>

DecodeLen ==
    /\ lc.pc = "encoded"
    /\ lc' = [lc EXCEPT !.pc = "decoded",
                        !.decoded_len1 = decode_len_small(Head(lc.len_encoded)),
                        !.decoded_len2 = decode_len_large(Tail(lc.len_encoded))]
    /\ UNCHANGED <<pc, value, enc, target, dec, io, prior, ds>>

LenNext == EncodeLen \/ DecodeLen

SpecLen == LenInit /\ [][LenNext]_vars

\* The byte sources on their own: a caller opens a BytesReader or a stream
\* over some bytes and calls the methods of Read and of BytesReader on it.

\* the contents of the sources
ReadInputs == SeqsUpTo({1, 7, 255}, MaxRead)

\* the buffers handed to read_exact: fresh ([0; n]) or holding older data
ReadBuffers == {[i \in 1..m |-> fill] : m \in 0..MaxRead, fill \in {0, 170}}

ReadInit ==
    /\ lc = IdleCodec
    /\ pc = "idle"
    /\ value = NoCase
    /\ prior = <<>>
    /\ ds = IdleDriver
    /\ enc = NewEncoder
    /\ target = S("unit")
    /\ dec = IdleDecoder
    /\ io \in {[IdleSession EXCEPT !.pc = "open", !.rd = NewReader(kind, bytes),
                                   !.before = NewReader(kind, bytes)] :
                  kind \in {"slice", "stream"}, bytes \in ReadInputs}

\* Read::read_exact(&mut buf) on the session's source
ReadExact(buf) ==
    /\ io.pc # "idle"
    /\ io.calls < MaxCalls
    /\ io' = [pc |-> "read_exact", rd |-> read_exact(io.rd, buf).rd, before |-> io.rd,
              buf |-> buf, calls |-> io.calls + 1, res |-> read_exact(io.rd, buf)]
    /\ UNCHANGED <<lc, pc, value, enc, target, dec, prior, ds>>

\* BytesReader::read_bytes(len) on the session's source
ReadBytes(len) ==
    /\ io.pc # "idle"
    /\ io.rd.kind = "slice"
    /\ io.calls < MaxCalls
    /\ io' = [pc |-> "read_bytes", rd |-> read_bytes(io.rd, ToUsize(len)).rd,
              before |-> io.rd, buf |-> Zeros(len), calls |-> io.calls + 1,
              res |-> read_bytes(io.rd, ToUsize(len))]
    /\ UNCHANGED <<lc, pc, value, enc, target, dec, prior, ds>>

\* Read::read_bytes_with_small_len() on the session's source
ReadBytesWithSmallLen ==
    /\ io.pc # "idle"
    /\ io.calls < MaxCalls
    /\ io' = [pc |-> "read_bytes_with_small_len",
              rd |-> read_bytes_with_small_len(io.rd).rd, before |-> io.rd,
              buf |-> <<>>, calls |-> io.calls + 1,
              res |-> read_bytes_with_small_len(io.rd)]
    /\ UNCHANGED <<lc, pc, value, enc, target, dec, prior, ds>>

\* BytesReader::visit_str / visit_bytes on the session's source: the
\* length prefix is read, then the view of that many bytes, which
\* visit_str checks to be UTF-8
VisitView(t) ==
    /\ io.pc # "idle"
    /\ io.rd.kind = "slice"
    /\ io.calls < MaxCalls
    /\ io' = [pc |-> "visit_" \o t, rd |-> view_for(io.rd, t).rd,
              before |-> io.rd, buf |-> <<>>, calls |-> io.calls + 1,
              res |-> view_for(io.rd, t)]
    /\ UNCHANGED <<lc, pc, value, enc, target, dec, prior, ds>>

ReadNext ==
    \/ \E buf \in ReadBuffers : ReadExact(buf)
    \/ \E len \in 0..(MaxRead + 1) : ReadBytes(len)
    \/ ReadBytesWithSmallLen
    \/ \E t \in {"str", "bytes"} : VisitView(t)

SpecRead == ReadInit /\ [][ReadNext]_vars


\* The sequence and map drivers on their own: a visitor is handed a driver
\* with a remaining count and calls its methods in any order, also after
\* an element failed to decode and after None.

\* the largest count a driver starts with, and the calls made on one driver
MaxCount == 2
MaxSteps == 4

\* the bytes behind the driver
DriverInputs == SeqsUpTo({1, 7}, MaxCount + 1)

\* the shape the visitor asks of elements and keys, and of values
ElementSeed == S("bool")
ValueSeed == S("u8")

\* the decoder as the next call finds it: an earlier Err was returned to
\* the visitor and is no state of the decoder
Resumed(d) == [d EXCEPT !.status = "ok", !.err = NoError]

\* SeqDecoder::new(decoder, len) / MapDecoder::new(decoder, len)
DrvInit ==
    /\ lc = IdleCodec
    /\ pc = "idle"
    /\ value = NoCase
    /\ prior = <<>>
    /\ enc = NewEncoder
    /\ target = S("unit")
    /\ dec = IdleDecoder
    /\ io = IdleSession
    /\ ds \in {[IdleDriver EXCEPT !.pc = "new", !.kind = k, !.n = n,
                                  !.drv = NewDriver(NewDecoder(NewReader(kind, bytes)), n),
                                  !.before = NewDriver(NewDecoder(NewReader(kind, bytes)), n)] :
                 k \in {"seq", "map"}, n \in 0..MaxCount,
                 kind \in {"slice", "stream"}, bytes \in DriverInputs}

\* the driver session after a call that returned res = [d, len, some]
AfterCall(name, res) ==
    [ds EXCEPT !.pc = name, !.before = ds.drv,
               !.drv = NewDriver(res.d, res.len),
               !.steps = ds.steps + 1,
               !.entered = ds.entered + (IF name # "next_value" /\ res.some THEN 1 ELSE 0),
               !.some = res.some]

\* seq.next_element_seed(seed)
NextElement ==
    /\ ds.pc # "idle" /\ ds.kind = "seq" /\ ds.steps < MaxSteps
    /\ ds' = AfterCall("next_element",
                       next_element_seed(NewDriver(Resumed(ds.drv.d), ds.drv.len), ElementSeed))
    /\ UNCHANGED <<lc, pc, value, enc, target, dec, io, prior>>

\* map.next_key_seed(seed)
NextKey ==
    /\ ds.pc # "idle" /\ ds.kind = "map" /\ ds.steps < MaxSteps
    /\ ds' = AfterCall("next_key",
                       next_key_seed(NewDriver(Resumed(ds.drv.d), ds.drv.len), ElementSeed))
    /\ UNCHANGED <<lc, pc, value, enc, target, dec, io, prior>>

\* map.next_value_seed(seed)
NextValue ==
    /\ ds.pc # "idle" /\ ds.kind = "map" /\ ds.steps < MaxSteps
    /\ ds' = AfterCall("next_value",
                       next_value_seed(NewDriver(Resumed(ds.drv.d), ds.drv.len), ValueSeed))
    /\ UNCHANGED <<lc, pc, value, enc, target, dec, io, prior>>

\* seq.size_hint() / map.size_hint()
SizeHint ==
    /\ ds.pc # "idle" /\ ds.steps < MaxSteps
    /\ ds' = [ds EXCEPT !.pc = "size_hint", !.before = ds.drv, !.steps = ds.steps + 1,
                        !.hint = size_hint(ds.drv)]
    /\ UNCHANGED <<lc, pc, value, enc, target, dec, io, prior>>

DrvNext == NextElement \/ NextKey \/ NextValue \/ SizeHint

SpecDrv == DrvInit /\ [][DrvNext]_vars

-----------------------------------------------------------------------------
(* Properties of the entry points and of the length codec.                 *)

\* the encodings of the values xs, each from a fresh writer, one after the
\* other; evaluated by halves
RECURSIVE ConcatEncodings(_)
ConcatEncodings(xs) ==
    IF xs = <<>> THEN <<>>
    ELSE IF Len(xs) = 1 THEN serialize(xs[1]).sink
    ELSE ConcatEncodings(SubSeq(xs, 1, Len(xs) \div 2))
         \o ConcatEncodings(SubSeq(xs, Len(xs) \div 2 + 1, Len(xs)))

\* the big-endian digits of a usize without its leading zero digits
RECURSIVE StripLeadingZeros(_)
StripLeadingZeros(u) ==
    IF u = <<>> THEN <<>>
    ELSE IF Head(u) = 0 THEN StripLeadingZeros(Tail(u))
    ELSE u

\* the usize of the digits given, padded with leading zeros
Usize(digits) == Zeros(UsizeBytes - Len(digits)) \o digits

\* C1: deserialize(serialize(v)) from a slice-backed source succeeds and
\* returns a value equal to v, for every value v of every supported shape
\* that serialize accepts.
C1_RoundTrip ==
    (pc = "decoded" /\ dec.rd.kind = "slice" /\ target = value.sh /\ RoundTripReady)
        => (dec.status = "ok" /\ dec.val = value.v)

\* a record-shaped variant of MyEnum has come back from its encoding
C1_Witness ==
    /\ pc = "decoded" /\ dec.rd.kind = "slice" /\ target = MyEnum
    /\ RoundTripReady
    /\ value.v.t = "struct_variant"
    /\ dec.val = value.v
    /\ dec.rd.buf = <<3, 0, 22>>

\* C2: decode_len_large of the tier-2 bytes of encode_len_large(n) (all
\* bytes after the first) is n, and decode_len_small of the first byte is
\* the number of tier-2 bytes.
C2_LenRoundTrip ==
    lc.pc = "decoded"
        => (lc.decoded_len2 = lc.len /\ lc.decoded_len1 = Len(Tail(lc.len_encoded)))

\* usize::MAX has been encoded to nine bytes and decoded again
C2_Witness ==
    /\ lc.pc = "decoded"
    /\ lc.len = [i \in 1..UsizeBytes |-> 255]
    /\ lc.decoded_len1 = 8
    /\ lc.decoded_len2 = lc.len

\* C3: encode_len_large(n) is [k] followed by exactly the k big-endian
\* bytes of n without its leading zero bytes: [0] for n = 0, a first
\* tier-2 byte that is never 0, k <= 8, and k = 0, 1, 2, 2, 4 for
\* n = 0, 255, 256, 65535, 2^32 - 1.
C3_CanonicalFraming ==
    lc.pc \in {"encoded", "decoded"} =>
        LET k == Head(lc.len_encoded)
            tier2 == Tail(lc.len_encoded)
        IN  /\ k = Len(tier2)
            /\ tier2 = StripLeadingZeros(lc.len)
            /\ k <= 8
            /\ k > 0 => tier2[1] # 0
            /\ lc.len = UsizeZero => lc.len_encoded = <<0>>
            /\ lc.len = Usize(<<255>>) => lc.len_encoded = <<1, 255>>
            /\ lc.len = Usize(<<1, 0>>) => lc.len_encoded = <<2, 1, 0>>
            /\ lc.len = Usize(<<255, 255>>) => lc.len_encoded = <<2, 255, 255>>
            /\ lc.len = Usize(<<255, 255, 255, 255>>)
                   => lc.len_encoded = <<4, 255, 255, 255, 255>>

\* 2^32 - 1 has been encoded with k = 4
C3_Witness ==
    /\ lc.pc = "encoded"
    /\ lc.len = Usize(<<255, 255, 255, 255>>)
    /\ Head(lc.len_encoded) = 4

\* C4: a record, tuple or tuple-record encodes to the concatenation of its
\* field encodings in declaration order and nothing else; the record
\* {flag: true, code: -1, label: "hi"} encodes to [1, 255, 1, 2, 104, 105].
C4_RecordIsConcatenation ==
    [][/\ (pc' = "encoded" /\ enc'.status = "ok"
              /\ value'.v.t \in {"tuple", "tuple_struct", "struct"})
           => enc'.sink = enc.sink \o ConcatEncodings(value'.v.xs)
       /\ (pc' = "encoded" /\ value' = Case(Record, RecordValue))
           => enc'.sink = enc.sink \o <<1, 255, 1, 2, 104, 105>>]_vars

\* the record of the example has been encoded into an empty sink
C4_Witness ==
    /\ pc = "encoded"
    /\ value = Case(Record, RecordValue)
    /\ enc.status = "ok"
    /\ enc.sink = <<1, 255, 1, 2, 104, 105>>

\* C5: text and byte buffers are written as encode_len_large(byte length)
\* and the bytes, a sequence as encode_len_large(element count) and the
\* element encodings, a map as encode_len_large(number of pairs) and the
\* alternating key and value encodings in iteration order.
C5_DynamicFraming ==
    [][(pc' = "encoded" /\ enc'.status = "ok") =>
          /\ value'.v.t \in {"str", "string", "bytes", "byte_buf"}
                => enc'.sink = enc.sink \o encode_len_large(ToUsize(Len(value'.v.bs)))
                                        \o value'.v.bs
          /\ value'.v.t = "seq"
                => enc'.sink = enc.sink \o encode_len_large(ToUsize(Len(value'.v.xs)))
                                        \o ConcatEncodings(value'.v.xs)
          /\ value'.v.t = "map"
                => enc'.sink = enc.sink
                                  \o encode_len_large(ToUsize(Len(value'.v.xs) \div 2))
                                  \o ConcatEncodings(value'.v.xs)]_vars

\* a map of two pairs has been encoded after a byte that was in the sink
C5_Witness ==
    /\ pc = "encoded"
    /\ value.v.t = "map" /\ Len(value.v.xs) = 4
    /\ enc.status = "ok"
    /\ Len(enc.sink) = 1 + 2 + 4
    /\ SubSeq(enc.sink, 2, 3) = <<1, 2>>

\* C6: encoding a sequence or map whose length is unknown fails with the
\* unknown-sequence-length / unknown-map-length error and leaves the sink
\* exactly as it was before the call.
C6_UnknownLengthRejected ==
    [][(pc' = "encoded" /\ value'.v.t \in {"seq", "map"} /\ ~value'.v.b) =>
          /\ enc'.status = "err"
          /\ enc'.err = IF value'.v.t = "seq" THEN UnknownSeqLengthNotAllowed
                        ELSE UnknownMapLengthNotAllowed
          /\ enc'.sink = enc.sink]_vars

\* a non-empty sequence of unknown length has been rejected on a sink that
\* held a byte
C6_Witness ==
    /\ pc = "encoded"
    /\ value.v.t = "seq" /\ ~value.v.b /\ value.v.xs # <<>>
    /\ enc.status = "err" /\ enc.err = UnknownSeqLengthNotAllowed
    /\ Len(enc.sink) = 1

\* C7: encoding a unit, newtype, tuple or record variant with index <= 255
\* writes one tag byte equal to the index and then the payload; with
\* index >= 256 it fails with TooManyVariants carrying the enum's name and
\* writes neither tag nor payload (for variants whose Serialize
\* implementation skips no field).
C7_EnumBound ==
    [][(pc' = "encoded" /\ value'.v.t \in VariantKinds
           /\ \A i \in 1..Len(value'.v.xs) : value'.v.xs[i].t # "skip") =>
          IF value'.v.n <= 255
          THEN /\ enc'.status = "ok"
               /\ enc'.sink = enc.sink \o <<value'.v.n>> \o ConcatEncodings(value'.v.xs)
          ELSE /\ enc'.status = "err"
               /\ enc'.err = TooManyVariants(value'.v.name)
               /\ enc'.sink = enc.sink]_vars

\* variant 256 of a record-variant enum has been rejected on a sink that
\* holds the tag of an earlier variant 255
C7_Witness ==
    /\ pc = "encoded"
    /\ value.v.t = "struct_variant" /\ value.v.n = 256
    /\ enc.status = "err" /\ enc.err = TooManyVariants("Big_struct_variant")
    /\ enc.sink = <<255>>

\* C8: decoding a boolean consumes exactly one byte b; 0 yields false, 1
\* yields true, any other b fails with InvalidBytes of type Bool carrying
\* [b], without a call to the visitor.
C8_BoolDecode ==
    (pc = "decoded" /\ target = S("bool")) =>
        /\ dec.status = "ok" =>
              /\ dec.rd.pos = 1
              /\ dec.rd.buf[1] \in {0, 1}
              /\ dec.val = VBool(dec.rd.buf[1] = 1)
        /\ (dec.rd.buf # <<>> /\ dec.rd.buf[1] \notin {0, 1}) =>
              /\ dec.status = "err"
              /\ dec.err = InvalidBytes("Bool", <<dec.rd.buf[1]>>)
              /\ dec.rd.pos = 1
              /\ dec.visits = <<>>

\* C9: decoding an optional consumes one discriminant byte d; 0 yields
\* absent and consumes nothing more, 1 yields present with the payload
\* decoded from the following bytes, any other d fails with InvalidBytes
\* of type Option carrying [d] and decodes no payload; the encoder writes 0
\* for absent and 1 followed by the payload for present.
C9_OptionCodec ==
    /\ (pc = "decoded" /\ target.t = "option") =>
          /\ (dec.status = "ok" /\ dec.val = VNone) =>
                (dec.rd.pos = 1 /\ dec.rd.buf[1] = 0)
          /\ (dec.status = "ok" /\ dec.val # VNone) =>
                (dec.rd.pos >= 1 /\ dec.rd.buf[1] = 1 /\ dec.val.t = "option")
          /\ (dec.rd.buf # <<>> /\ dec.rd.buf[1] \notin {0, 1}) =>
                /\ dec.status = "err"
                /\ dec.err = InvalidBytes("Option", <<dec.rd.buf[1]>>)
                /\ dec.rd.pos = 1
                /\ dec.visits = <<>>
    /\ (pc = "encoded" /\ RoundTripReady /\ value.v.t = "option") =>
          enc.sink = IF value.v.xs = <<>> THEN <<0>>
                     ELSE <<1>> \o ConcatEncodings(value.v.xs)

\* C10: deserialize_any, deserialize_ignored_any and deserialize_identifier
\* fail with their dedicated error on every input, consume no byte and
\* never call the visitor.
C10_ShapeFreeRejected ==
    (pc = "decoded" /\ target.t \in {"any", "ignored_any", "identifier"}) =>
        /\ dec.status = "err"
        /\ dec.err = IF target.t = "identifier" THEN CannotDeserializeIdentifier
                     ELSE CannotDeserializeAny
        /\ dec.rd.pos = 0
        /\ dec.rd.buf = enc.sink
        /\ dec.visits = <<>>

\* a skip request has been rejected on a slice that holds bytes
C10_Witness ==
    /\ pc = "decoded" /\ target = S("ignored_any")
    /\ dec.rd.kind = "slice" /\ dec.rd.buf # <<>>
    /\ dec.status = "err" /\ dec.err = CannotDeserializeAny

\* C11: a stream-backed source never produces a borrowed view: a request
\* for a borrowed string or borrowed bytes reaches the visitor only through
\* visit_str / visit_bytes, so a target that needs borrowed data fails with
\* the 'expected a borrowed ...' custom error and receives no value, while
\* an owned target (String, byte buffer) decodes from the same stream.
C11_StreamNeverBorrows ==
    (pc = "decoded" /\ dec.rd.kind = "stream") =>
        /\ \A i \in 1..Len(dec.visits) :
              dec.visits[i] \notin {"visit_borrowed_str", "visit_borrowed_bytes"}
        /\ (target = value.sh /\ RoundTripReady /\ target.t \in {"str", "bytes"}) =>
              /\ dec.status = "err"
              /\ dec.err = ExpectedBorrowed(target.t, value.v.bs)
              /\ dec.visits = <<"visit_" \o target.t>>
              /\ dec.val = V("unit")
        /\ (target = value.sh /\ RoundTripReady /\ target.t \in {"string", "byte_buf"}) =>
              (dec.status = "ok" /\ dec.val = value.v)

\* a &str has been asked of a stream that holds the encoding of "hi"
C11_Witness ==
    /\ pc = "decoded" /\ dec.rd.kind = "stream"
    /\ target = S("str") /\ RoundTripReady
    /\ value.v.bs = <<104, 105>>
    /\ dec.err = Custom(Ascii("invalid type: string \"hi\", expected a borrowed string"))
    /\ dec.rd.pos = 4

\* the number a big-endian byte string denotes
RECURSIVE BigEndian(_)
BigEndian(bytes) ==
    IF bytes = <<>> THEN 0
    ELSE BigEndian(SubSeq(bytes, 1, Len(bytes) - 1)) * 256 + bytes[Len(bytes)]

\* C12: on a slice-backed source a request for a borrowed string or
\* borrowed bytes that succeeds hands the visitor a view of the input
\* buffer: the bytes that follow the length prefix, as many as the prefix
\* says (for a prefix whose tier-2 bytes fit a usize), with the cursor left
\* on the byte just after them.
C12_BorrowedViewAliases ==
    (pc = "decoded" /\ dec.rd.kind = "slice" /\ target.t \in {"str", "bytes"}
       /\ dec.status = "ok") =>
        LET buf == dec.rd.buf
            n == Len(dec.val.bs)
        IN  /\ dec.visits = <<"visit_borrowed_" \o target.t>>
            /\ dec.val = VText(target.t, SubSeq(buf, dec.rd.pos - n + 1, dec.rd.pos))
            /\ (buf # <<>> /\ buf[1] <= UsizeBytes /\ Len(buf) >= 1 + buf[1]) =>
                  /\ dec.rd.pos - n = 1 + buf[1]
                  /\ n = BigEndian(SubSeq(buf, 2, 1 + buf[1]))

\* the nine bytes of "my string" have been handed out as a view of bytes
\* 3..11 of the buffer
C12_Witness ==
    /\ pc = "decoded" /\ dec.rd.kind = "slice" /\ target = S("str")
    /\ dec.status = "ok"
    /\ Len(dec.val.bs) = 9
    /\ SubSeq(dec.rd.buf, 1, 2) = <<1, 9>>
    /\ dec.rd.pos = 11

\* C13: on both sources read_exact(buf) either fills buf with the next
\* len(buf) bytes of the source or returns an error; it never returns
\* success when fewer than len(buf) bytes were available.
C13_ReadExactFillsOrFails ==
    (io.pc = "read_exact" /\ io.res.ok) =>
        /\ Len(io.buf) <= Len(Remaining(io.before))
        /\ io.res.bytes = SubSeq(Remaining(io.before), 1, Len(io.buf))
        /\ io.rd.pos = io.before.pos + Len(io.buf)

\* C14: the borrowed-view path of the slice-backed source fails hard on
\* shortage: when the buffer holds fewer bytes than the framed value needs
\* (length prefix and payload), visit_str / visit_bytes return UnexpectedEof
\* and hand no view to the visitor.
C14_BorrowedViewFailsOnShortage ==
    (pc = "decoded" /\ dec.rd.kind = "slice" /\ target.t \in {"str", "bytes"}) =>
        LET buf == dec.rd.buf
            short ==
                \/ buf = <<>>
                \/ Len(buf) < 1 + buf[1]
                \/ TooLarge(decode_len_large(SubSeq(buf, 2, 1 + buf[1])))
                \/ Len(buf) < 1 + buf[1]
                                + UsizeToNat(decode_len_large(SubSeq(buf, 2, 1 + buf[1])))
        IN  short => (/\ dec.status = "err"
                      /\ dec.err = UnexpectedEof
                      /\ dec.visits = <<>>)

\* the fields of a struct value up to its first skipped field
RECURSIVE BeforeSkip(_)
BeforeSkip(xs) ==
    IF xs = <<>> \/ Head(xs).t = "skip" THEN <<>>
    ELSE <<Head(xs)>> \o BeforeSkip(Tail(xs))

\* C15: a request to skip a field while encoding a record or a
\* record-shaped enum variant is rejected with an error that names the
\* field, and the request writes no byte: the sink holds what the fields
\* before it wrote (and the variant's tag) and nothing more.
C15_SkipRejected ==
    [][(pc' = "encoded" /\ value'.v.t \in {"struct", "struct_variant"}
           /\ \E i \in 1..Len(value'.v.xs) : value'.v.xs[i].t = "skip") =>
          LET done == BeforeSkip(value'.v.xs)
              key == value'.v.xs[Len(done) + 1].name
              tag == IF value'.v.t = "struct_variant" THEN <<value'.v.n>> ELSE <<>>
          IN  /\ enc'.status = "err"
              /\ enc'.err.kind = "FieldSkippingNotAllowed"
              /\ enc'.err.name = key
              /\ enc'.sink = enc.sink \o tag \o ConcatEncodings(done)]_vars

\* the skip of field b has been rejected after field a was written
C15_Witness ==
    /\ pc = "encoded"
    /\ value.v.t = "struct" /\ Len(value.v.xs) = 3 /\ value.v.xs[2] = VSkip("b")
    /\ enc.status = "err" /\ enc.err = FieldSkippingNotAllowed("b")
    /\ enc.sink = <<5>>

\* C16: a unicode scalar is encoded as one byte w, its UTF-8 width (1..4),
\* followed by its w UTF-8 bytes; decoding a char from input that holds a
\* width byte w in 1..4 followed by w bytes of valid UTF-8 yields the first
\* scalar of those w bytes and consumes exactly 1 + w bytes, whatever else
\* the w bytes hold.
C16_CharFraming ==
    /\ (pc = "encoded" /\ value.v.t = "char" /\ enc.status = "ok") =>
          \E w \in 1..4 :
              /\ Len(enc.sink) >= 1 + w
              /\ enc.sink[Len(enc.sink) - w] = w
              /\ Utf8Valid(Drop(enc.sink, Len(enc.sink) - w))
              /\ Utf8Width(Drop(enc.sink, Len(enc.sink) - w)) = w
              /\ FirstScalar(Drop(enc.sink, Len(enc.sink) - w)) = value.v.n
    /\ (/\ pc = "decoded" /\ target = S("char")
        /\ dec.rd.buf # <<>>
        /\ dec.rd.buf[1] \in 1..4
        /\ Len(dec.rd.buf) >= 1 + dec.rd.buf[1]
        /\ Utf8Valid(SubSeq(dec.rd.buf, 2, 1 + dec.rd.buf[1]))) =>
          /\ dec.status = "ok"
          /\ dec.val = VChar(FirstScalar(SubSeq(dec.rd.buf, 2, 1 + dec.rd.buf[1])))
          /\ dec.rd.pos = 1 + dec.rd.buf[1]

\* a width byte of 2 before "hi" has been decoded as a char: 'h' comes back,
\* three bytes are consumed and 'i' is dropped
C16_Witness ==
    /\ pc = "decoded" /\ target = S("char")
    /\ dec.rd.buf = <<2, 104, 105>>
    /\ dec.status = "ok" /\ dec.val = VChar(104)
    /\ dec.rd.pos = 3

\* C17: for every value with a non-empty encoding and every strict prefix
\* of serialize(v), deserialize of the prefix as v's shape returns an error
\* and never a value.
C17_PrefixRejected ==
    (pc = "decoded_prefix" /\ dec.rd.kind = "slice") => dec.status = "err"

\* the same over a stream-backed source, whose read_exact fails on a short
\* read
C17_StreamPrefixRejected ==
    (pc = "decoded_prefix" /\ dec.rd.kind = "stream") => dec.status = "err"

\* a stream-backed source yields no borrowed view (&str, &[u8])
CanYield(kind, sh) == kind = "stream" => sh.t \notin {"str", "bytes"}

\* C18: decoding the shape of a from serialize(a) ++ serialize(b) with one
\* decoder yields a and leaves the cursor at the first byte of
\* serialize(b); a second decode with the same decoder then yields b and
\* no byte remains (for shapes the source can yield: a stream-backed one
\* yields no borrowed view).
C18_ExactConsumption ==
    /\ (pc = "decoded_first" /\ CanYield(dec.rd.kind, prior[1].sh)) =>
          /\ dec.status = "ok" /\ dec.val = prior[1].v
          /\ dec.rd.pos = Len(serialize(prior[1].v).sink)
          /\ Remaining(dec.rd) = serialize(value.v).sink
    /\ (pc = "decoded_second" /\ CanYield(dec.rd.kind, value.sh)) =>
          /\ dec.status = "ok" /\ dec.val = value.v
          /\ Remaining(dec.rd) = <<>>

\* a string came back from behind a three-field struct, and nothing is left
C18_Witness ==
    /\ pc = "decoded_second"
    /\ prior # <<>> /\ prior[1].sh = Record
    /\ value.v = VText("string", <<104, 105>>)
    /\ dec.status = "ok" /\ dec.val = value.v
    /\ dec.rd.pos = Len(dec.rd.buf) /\ dec.rd.pos = Len(serialize(RecordValue).sink) + 4

\* the call just made went into its decoding branch: one element, key or
\* value of one byte was asked of the decoder, and the visitor was called
\* once if that succeeded
DecodedOne ==
    /\ ds.drv.d.rd.buf = ds.before.d.rd.buf
    /\ ds.drv.d.rd.pos = ds.before.d.rd.pos + Min(1, Len(Remaining(ds.before.d.rd)))
    /\ Len(ds.drv.d.visits) =
          Len(ds.before.d.visits) + (IF ds.drv.d.status = "ok" THEN 1 ELSE 0)

\* the call just made left the decoder alone
ReadNothing ==
    /\ ds.drv.d.rd = ds.before.d.rd
    /\ ds.drv.d.visits = ds.before.d.visits

\* C19: for a sequence driver created with remaining count n, each of the
\* first n next-element calls decrements the count and decodes exactly one
\* element (the count is decremented even when the element fails to
\* decode), every later call returns None without reading any byte, the
\* count never goes below zero, and size_hint equals the remaining count.
C19_SeqDriver ==
    ds.kind = "seq" =>
        /\ ds.drv.len >= 0
        /\ ds.entered + ds.drv.len = ds.n
        /\ ds.pc = "next_element" =>
              IF ds.before.len > 0
              THEN ds.some /\ ds.drv.len = ds.before.len - 1 /\ DecodedOne
              ELSE ~ds.some /\ ds.drv.len = 0 /\ ReadNothing
        /\ ds.pc = "size_hint" => ds.hint = ds.drv.len /\ ds.drv = ds.before

\* a driver of two elements has returned None to the third call, with a
\* byte still unread
C19_Witness ==
    /\ ds.kind = "seq" /\ ds.n = 2 /\ ds.pc = "next_element"
    /\ ds.entered = 2 /\ ds.steps = 3
    /\ ~ds.some /\ ds.drv.len = 0
    /\ ds.drv.d.rd.pos = 2 /\ Len(ds.drv.d.rd.buf) = 3

\* C20: of a map driver only the next-key step decrements the remaining
\* pair count (while it is above zero, before decoding the key; at zero it
\* returns None and reads nothing); the next-value step decodes one value
\* and leaves the count unchanged, so a driver created with count n yields
\* n keys, and size_hint equals the remaining pairs.
C20_MapDriver ==
    ds.kind = "map" =>
        /\ ds.drv.len >= 0
        /\ ds.entered + ds.drv.len = ds.n
        /\ ds.pc = "next_key" =>
              IF ds.before.len > 0
              THEN ds.some /\ ds.drv.len = ds.before.len - 1 /\ DecodedOne
              ELSE ~ds.some /\ ds.drv.len = 0 /\ ReadNothing
        /\ ds.pc = "next_value" => ds.drv.len = ds.before.len /\ DecodedOne
        /\ ds.pc = "size_hint" => ds.hint = ds.drv.len /\ ds.drv = ds.before

\* key, value, key, value of a map of two pairs have been decoded
C20_Witness ==
    /\ ds.kind = "map" /\ ds.n = 2 /\ ds.pc = "next_value"
    /\ ds.entered = 2 /\ ds.steps = 4 /\ ds.drv.len = 0
    /\ ds.drv.d.status = "ok"
    /\ ds.drv.d.visits = <<"visit_bool", "visit_u8", "visit_bool", "visit_u8">>

\* the visitor calls the payload of a variant of MyEnum makes, and the
\* bytes its payload occupies
PayloadVisits(kind) ==
    CASE kind = "unit_variant" -> <<>>
      [] kind = "newtype_variant" -> <<"visit_u8">>
      [] OTHER -> <<"visit_seq", "visit_unit", "visit_bool", "visit_u8">>

PayloadBytes(kind) ==
    CASE kind = "unit_variant" -> 0
      [] kind = "newtype_variant" -> 1
      [] OTHER -> 2

\* C21: decoding a tagged union consumes exactly one tag byte and offers it
\* as the variant index before anything of the payload is read (a source
\* with no byte left has no tag to offer, and an index the enum does not
\* have is rejected by the visitor it is offered to, with one byte
\* consumed); then a unit variant consumes nothing more, a newtype variant
\* decodes exactly one value, and a tuple or record variant decodes exactly
\* its declared fields with no length prefix read.
C21_EnumDecodeOrder ==
    (pc = "decoded" /\ target = MyEnum) =>
        IF dec.rd.buf = <<>>
        THEN /\ dec.status = "err" /\ dec.rd.pos = 0
             /\ dec.visits = <<"visit_enum">>
        ELSE IF dec.rd.buf[1] >= Len(MyEnum.xs)
        THEN /\ dec.status = "err" /\ dec.rd.pos = 1
             /\ dec.visits = <<"visit_enum", "visit_u8">>
        ELSE LET kind == MyEnum.xs[dec.rd.buf[1] + 1].t
             IN  /\ Len(dec.visits) >= 2
                 /\ SubSeq(dec.visits, 1, 2) = <<"visit_enum", "visit_u8">>
                 /\ dec.rd.pos >= 1
                 /\ dec.rd.pos <= 1 + PayloadBytes(kind)
                 /\ \A i \in 1..(Len(dec.visits) - 2) :
                       dec.visits[i + 2] = PayloadVisits(kind)[i]
                 /\ dec.status = "ok" =>
                       /\ dec.val.t = kind /\ dec.val.n = dec.rd.buf[1]
                       /\ dec.visits = <<"visit_enum", "visit_u8">> \o PayloadVisits(kind)
                       /\ dec.rd.pos = 1 + PayloadBytes(kind)

\* the children of a compound value up to and including the first one that
\* cannot be encoded
RECURSIVE UpToFailure(_)
UpToFailure(xs) ==
    IF xs = <<>> THEN <<>>
    ELSE IF serialize(Head(xs)).status # "ok" THEN <<Head(xs)>>
    ELSE <<Head(xs)>> \o UpToFailure(Tail(xs))

\* what a value writes before its first child (all of it, for a value
\* without children)
Header(v) == IF v.xs = <<>> THEN serialize(v) ELSE SerializeOpen(v, NewEncoder)

\* the kinds of error an encode call returns
EncodeErrors ==
    {"UnknownSeqLengthNotAllowed", "UnknownMapLengthNotAllowed", "TooManyVariants",
     "FieldSkippingNotAllowed", "IoError"}

\* C22: when encoding into a caller-supplied sink fails part-way (inner
\* sequence or map of unknown length, variant index >= 256, skip request,
\* sink write failure), the call returns that error, every byte the sink
\* held and every byte written before the failure stays as it was, and
\* nothing is written after the failure: the sink gains the bytes of the
\* children up to the failing one and none of a later child, and a sink of
\* fixed size gains the leading bytes of the encoding that fit.
C22_NoRollbackAbort ==
    [][/\ (pc' \in {"encoded", "encoded_limited"} /\ enc'.status = "err") =>
             /\ enc'.err.kind \in EncodeErrors
             /\ Len(enc'.sink) >= Len(enc.sink)
             /\ Take(enc'.sink, Len(enc.sink)) = enc.sink
       /\ (pc' = "encoded" /\ enc'.status = "err") =>
             /\ enc'.err = serialize(value'.v).err
             /\ enc'.sink =
                   IF Header(value'.v).status # "ok" THEN enc.sink
                   ELSE enc.sink \o Header(value'.v).sink
                                 \o ConcatEncodings(UpToFailure(value'.v.xs))
       /\ pc' = "encoded_limited" =>
             LET written == Drop(enc'.sink, Len(enc.sink))
                 room == enc'.room + Len(written)
                 whole == serialize(value'.v)
             IN  /\ written = Take(whole.sink, room)
                 /\ enc'.status = "ok" <=> (whole.status = "ok" /\ Len(whole.sink) <= room)
                 /\ Len(whole.sink) > room => enc'.err = IoError("WriteZero")
                 /\ (whole.status = "err" /\ Len(whole.sink) <= room) =>
                       enc'.err = whole.err]_vars

\* a struct's second field was refused: the first field's byte is in the
\* sink behind the byte it held, the third field's is not
C22_Witness ==
    /\ pc = "encoded" /\ enc.status = "err"
    /\ value.v = VKids("struct", <<VInt("u8", 5), VSkip("b"), VInt("u8", 7)>>)
    /\ enc.sink = <<1, 5>>

\* a sink of three bytes took the first three bytes of a string's encoding
C22_WitnessLimited ==
    /\ pc = "encoded_limited" /\ enc.status = "err"
    /\ enc.err = IoError("WriteZero")
    /\ value.v = VText("string", <<104, 105>>)
    /\ enc.sink = <<1, 2, 104>> /\ enc.room = 0

\* the read_exact call just made asked for more bytes than its source had
Shortage == Len(io.buf) > Len(Remaining(io.before))

\* C23: when the stream has fewer bytes left than requested, the
\* stream-backed source's read_exact returns success, having filled only
\* the bytes that exist and left the rest of the buffer as it was.
C23_StreamLaxOnShortage ==
    (io.pc = "read_exact" /\ io.before.kind = "stream" /\ Shortage) =>
        /\ io.res.ok
        /\ io.res.bytes = Remaining(io.before)
                              \o Drop(io.buf, Len(Remaining(io.before)))

\* C23, as the code has it: the stream-backed source's read_exact fails
\* with an UnexpectedEof I/O error when the stream has fewer bytes left
\* than requested, and succeeds only with the whole buffer filled from the
\* next bytes of the stream.
C23_StreamStrictOnShortage ==
    (io.pc = "read_exact" /\ io.before.kind = "stream") =>
        IF Shortage
        THEN ~io.res.ok /\ io.res.err = IoError("UnexpectedEof")
        ELSE /\ io.res.ok
             /\ io.res.bytes = SubSeq(Remaining(io.before), 1, Len(io.buf))
             /\ io.rd.pos = io.before.pos + Len(io.buf)

\* three bytes were asked of a stream that held two
C23_Witness ==
    /\ io.pc = "read_exact" /\ io.before.kind = "stream"
    /\ io.before.buf = <<1, 7>> /\ io.before.pos = 0
    /\ Len(io.buf) = 3
    /\ ~io.res.ok /\ io.res.err = IoError("UnexpectedEof")

\* C24: with r bytes remaining and a request for m bytes, the slice-backed
\* read_exact always returns success, copies the first min(m, r) remaining
\* bytes to the front of the buffer, leaves the other buffer bytes
\* untouched and advances the cursor by exactly min(m, r).
C24_SliceZeroPads ==
    (io.pc = "read_exact" /\ io.before.kind = "slice") =>
        LET r == Len(Remaining(io.before))
            m == Len(io.buf)
            k == IF m < r THEN m ELSE r
        IN  /\ io.res.ok
            /\ Len(io.res.bytes) = m
            /\ \A i \in 1..m :
                  io.res.bytes[i] = IF i <= k THEN io.before.buf[io.before.pos + i]
                                    ELSE io.buf[i]
            /\ io.rd.buf = io.before.buf
            /\ io.rd.pos = io.before.pos + k

\* a second read of three bytes into a buffer of 170s found one byte left
C24_Witness ==
    /\ io.pc = "read_exact" /\ io.before.kind = "slice"
    /\ io.before.buf = <<1, 7, 7>> /\ io.before.pos = 2
    /\ io.buf = <<170, 170, 170>>
    /\ io.res.ok /\ io.res.bytes = <<7, 170, 170>>
    /\ io.rd.pos = 3

\* C25: when a length prefix announces more tier-2 bytes than a usize has
\* (tier-1 byte above 8), reading a framed text, byte buffer, sequence or
\* map returns an error and never proceeds with a length that wrapped
\* modulo 2^64.  Stated for input that holds the whole prefix.
C25_OverflowGuarded ==
    (/\ pc = "decoded"
     /\ target.t \in {"str", "bytes", "string", "byte_buf", "seq", "map"}
     /\ dec.rd.buf # <<>>
     /\ dec.rd.buf[1] > UsizeBytes
     /\ Len(dec.rd.buf) >= 1 + dec.rd.buf[1]) =>
        dec.status = "err"

\* C26: for every input and every requested shape the decoder returns a
\* value or an Error; decoding a char whose width byte is 0 or above 4
\* returns an error and does not panic.
C26_NeverAborts ==
    pc \in {"decoded", "decoded_prefix", "decoded_first", "decoded_second"} =>
        dec.status # "panic"

\* C27: after any sequence of read_exact, read_bytes, visit_str and
\* visit_bytes calls on a BytesReader, the unread bytes are a suffix of the
\* original buffer: the buffer is the one the reader was made of, and the
\* cursor only moves forward and never past the end; a read_bytes call
\* that fails with UnexpectedEof leaves the cursor exactly where it was.
C27_SliceCursor ==
    (io.pc # "idle" /\ io.rd.kind = "slice") =>
        /\ io.rd.buf = io.before.buf
        /\ 0 <= io.before.pos
        /\ io.before.pos <= io.rd.pos
        /\ io.rd.pos <= Len(io.rd.buf)
        /\ (io.pc = "read_bytes" /\ ~io.res.ok) =>
              /\ io.res.err = UnexpectedEof
              /\ io.rd = io.before

\* after one byte was read, a read_bytes of three failed on the two bytes
\* left and the cursor stayed behind the first byte
C27_Witness ==
    /\ io.pc = "read_bytes" /\ io.rd.kind = "slice"
    /\ io.rd.buf = <<1, 7, 7>>
    /\ io.calls = 2
    /\ Len(io.buf) = 3
    /\ ~io.res.ok /\ io.res.err = UnexpectedEof
    /\ io.rd.pos = 1 /\ io.before.pos = 1

====
